---- MODULE Spec2Model ----
(***************************************************************************)
(* Model of core/node/auth/auth_impl.go: the chainAuth decision pipeline   *)
(* (IsEntitled / checkEntitlement), its collaborators' answers, the        *)
(* membership fan-out with its two channels, and the caches it consults.   *)
(***************************************************************************)
EXTENDS Integers, Sequences, FiniteSets, TLC

(***************************************************************************)
(* Bounds of the model.                                                    *)
(***************************************************************************)
\* addresses are 0..MaxAddr: 0 is the zero address, 1 is `everyone`
MaxAddr == 3
\* longest list the linked-wallet resolver returns
MaxWallets == 2
\* longest entitlement list the entitlement fetch returns
MaxRecords == 2
\* the clock runs 0..MaxTime; a granted value is served while younger than
\* LongTTL ticks, a denied one while younger than ShortTTL ticks
MaxTime == 2
LongTTL == 2
ShortTTL == 1

(***************************************************************************)
(* Program constants.                                                      *)
(***************************************************************************)
DEFAULT_MAX_WALLETS == 10

everyone == 1

zeroAddress == 0

Addr == 0..MaxAddr

\* addresses that can be a principal or a linked wallet
WalletAddr == 2..MaxAddr

\* the requests of the model all come from one principal
Principals == {2}

\* the values of linkedWalletsLimit handed to NewChainAuth
CfgLimits == {-1, 0, 1}

Reqs == {"r1", "r2"}

SpaceS == "S"

ChannelC == "C"

NoStream == ""

(***************************************************************************)
(* Sequences helpers.                                                      *)
(***************************************************************************)
Range(s) == {s[i] : i \in DOMAIN s}

SeqsUpTo(S, n) == UNION {[1..k -> S] : k \in 0..n}

Distinct(s) == \A i, j \in DOMAIN s : i # j => s[i] # s[j]

(***************************************************************************)
(* ChainAuthArgs and its constructors.                                     *)
(***************************************************************************)
ChainAuthArgs(kind, spaceId, channelId, principal, permission, linkedWallets, walletAddress) ==
    [kind |-> kind, spaceId |-> spaceId, channelId |-> channelId,
     principal |-> principal, permission |-> permission,
     linkedWallets |-> linkedWallets, walletAddress |-> walletAddress]

NewChainAuthArgsForSpace(spaceId, userId, permission) ==
    ChainAuthArgs("Space", spaceId, NoStream, userId, permission, <<>>, zeroAddress)

NewChainAuthArgsForChannel(spaceId, channelId, userId, permission) ==
    ChainAuthArgs("Channel", spaceId, channelId, userId, permission, <<>>, zeroAddress)

NewChainAuthArgsForIsSpaceMember(spaceId, userId) ==
    ChainAuthArgs("IsSpaceMember", spaceId, NoStream, userId, "Undefined", <<>>, zeroAddress)

NewChainAuthArgsForIsWalletLinked(userAddress, walletAddress) ==
    ChainAuthArgs("IsWalletLinked", NoStream, NoStream, userAddress, "Undefined", <<>>, walletAddress)

newArgsForEnabledSpace(spaceId) ==
    ChainAuthArgs("SpaceEnabled", spaceId, NoStream, zeroAddress, "Undefined", <<>>, zeroAddress)

newArgsForEnabledChannel(spaceId, channelId) ==
    ChainAuthArgs("ChannelEnabled", spaceId, channelId, zeroAddress, "Undefined", <<>>, zeroAddress)

\* the zero value of kind is chainAuthKindSpace
newArgsForLinkedWallets(principal) ==
    ChainAuthArgs("Space", NoStream, NoStream, principal, "Undefined", <<>>, zeroAddress)

\* key of the membership probe of one wallet
membershipArgs(spaceId, address) ==
    ChainAuthArgs("IsSpaceMember", spaceId, NoStream, address, "Undefined", <<>>, zeroAddress)

(***************************************************************************)
(* Serialized wallet lists.  A string is a sequence of tokens: the hex     *)
(* text of an address is one token, the separator "," another.             *)
(***************************************************************************)
Hex(a) == ToString(a)

HexToAddress(s) ==
    IF s = <<>> THEN zeroAddress
    ELSE IF \E a \in Addr : Hex(a) = s[1] THEN CHOOSE a \in Addr : Hex(a) = s[1]
    ELSE zeroAddress

RECURSIVE Join(_)
Join(ws) ==
    IF ws = <<>> THEN <<>>
    ELSE IF Len(ws) = 1 THEN <<Hex(ws[1])>>
    ELSE <<Hex(ws[1]), ",">> \o Join(Tail(ws))

\* variant: the copy is returned without the wallets
withLinkedWallets_dropped(args, linkedWallets) == args

withLinkedWallets(args, linkedWallets) ==
    [args EXCEPT !.linkedWallets = Join(linkedWallets)]

\* strings.Split(s, ","): the parts between separators; one empty part for ""
RECURSIVE Split(_)
Split(s) ==
    IF \A i \in DOMAIN s : s[i] # "," THEN <<s>>
    ELSE LET k == CHOOSE i \in DOMAIN s :
                      s[i] = "," /\ \A j \in 1..(i - 1) : s[j] # ","
         IN <<SubSeq(s, 1, k - 1)>> \o Split(SubSeq(s, k + 1, Len(s)))

deserializeWallets(serialized) ==
    LET addressStrings == Split(serialized)
    IN [i \in DOMAIN addressStrings |-> HexToAddress(addressStrings[i])]

(***************************************************************************)
(* The clock the caches read.                                              *)
(***************************************************************************)
VARIABLE now

(***************************************************************************)
(* Results.                                                                *)
(***************************************************************************)
boolCacheResult(allowed, reason) == [allowed |-> allowed, reason |-> reason]

\* what IsEntitled hands back: the decision, or an error and no decision
Decision(result) == [allowed |-> result.allowed, reason |-> result.reason, err |-> "none"]

Failure(err) == [allowed |-> FALSE, reason |-> "NONE", err |-> err]

NoDecision == [allowed |-> FALSE, reason |-> "NONE", err |-> "unset"]

(***************************************************************************)
(* The cache: lookup-or-compute with single-flight, TTLs, and bust.  An    *)
(* entry is a key, a value and the time it was stored; inflight holds the  *)
(* keys whose fn is running; busted holds the keys busted and not looked   *)
(* up since, each with whether its fn was running at the bust.             *)
(***************************************************************************)
newEntitlementCache == [entries |-> {}, inflight |-> {}, busted |-> {}]

\* CacheResult.IsAllowed: a decision says so itself, any other value is positive
IsAllowed(val) == IF "allowed" \in DOMAIN val THEN val.allowed ELSE TRUE

cacheTTL(val) == IF IsAllowed(val) THEN LongTTL ELSE ShortTTL

\* variant: the key leaves out whose request it is
keyMatches_principalIgnored(stored, key) ==
    [stored EXCEPT !.principal = zeroAddress, !.walletAddress = zeroAddress]
        = [key EXCEPT !.principal = zeroAddress, !.walletAddress = zeroAddress]

\* the caches are keyed by the full request
keyMatches(stored, key) == stored = key

cacheEntry(c, key) == CHOOSE e \in c.entries : keyMatches(e.key, key)

\* variant: an entry is served whatever its age
cacheHas_forever(c, key) == \E e \in c.entries : e.key = key

cacheHas(c, key) ==
    \E e \in c.entries : keyMatches(e.key, key) /\ now - e.at < cacheTTL(e.val)

cacheGet(c, key) == cacheEntry(c, key).val

cacheStore(c, key, val) ==
    [c EXCEPT !.entries = {e \in @ : e.key # key}
                          \cup {[key |-> key, val |-> val, at |-> now]},
              !.inflight = @ \ {key}]

cacheBegin(c, key) == [c EXCEPT !.inflight = @ \cup {key}]

cacheFail(c, key) == [c EXCEPT !.inflight = @ \ {key}]

\* variant: the bust empties the cache
bust_everything(c, key) ==
    [c EXCEPT !.entries = {},
              !.busted = {b \in @ : b.key # key}
                         \cup {[key |-> key, busy |-> key \in c.inflight]}]

bust(c, key) ==
    [c EXCEPT !.entries = {e \in @ : e.key # key},
              !.busted = {b \in @ : b.key # key}
                         \cup {[key |-> key, busy |-> key \in c.inflight]}]

\* a lookup of the key ends the wait for "the next lookup after the bust"
cacheLooked(c, key) == [c EXCEPT !.busted = {b \in @ : b.key # key}]

\* what a lookup of the key does: "hit", "join" the running fn, or run "fn"
cacheLookup(c, key) ==
    IF cacheHas(c, key) THEN "hit"
    ELSE IF key \in c.inflight THEN "join"
    ELSE "fn"

\* the bust the lookup comes after: "no", or the key's fn was "idle" or "busy"
cacheAfterBust(c, key) ==
    IF \E b \in c.busted : b.key = key
    THEN (IF (CHOOSE b \in c.busted : b.key = key).busy THEN "busy" ELSE "idle")
    ELSE "no"

(***************************************************************************)
(* Entitlement records.  The answers of the rule library (conversion of a  *)
(* V1 rule, evaluation of a rule against the wallets) are carried by the   *)
(* record they belong to.                                                  *)
(***************************************************************************)
RuleV1(conv, eval) ==
    [type |-> "RuleEntitlement", conv |-> conv, eval |-> eval, users |-> <<>>]

RuleV2(eval) ==
    [type |-> "RuleEntitlementV2", conv |-> "ok", eval |-> eval, users |-> <<>>]

UserList(users) ==
    [type |-> "UserEntitlement", conv |-> "ok", eval |-> "false", users |-> users]

UnknownRecord == [type |-> "Unknown", conv |-> "ok", eval |-> "false", users |-> <<>>]

\* the records of the model: a V1 rule that does not convert, a V1 rule
\* that holds, a V2 rule that does not, a V2 rule whose evaluation fails,
\* the allowlist of everyone, the allowlist of the last address, and a
\* record of a type the code does not know
Records ==
    {RuleV1("error", "false"), RuleV1("ok", "true"), RuleV2("false"), RuleV2("error"),
     UserList(<<everyone>>), UserList(<<MaxAddr>>), UnknownRecord}

RecordLists == SeqsUpTo(Records, MaxRecords)

\* lists the linked-wallet resolver can return for a principal
WalletLists(principal) ==
    {w \in SeqsUpTo(WalletAddr, MaxWallets) : Distinct(w) /\ principal \in Range(w)}

(***************************************************************************)
(* evaluateEntitlementData: the records in list order, first true wins.    *)
(***************************************************************************)
\* variant: the everyone address is compared like any other address
userEntitled_walletsOnly(users, wallets) ==
    \E i \in DOMAIN users : \E j \in DOMAIN wallets : wallets[j] = users[i]

userEntitled(users, wallets) ==
    \E i \in DOMAIN users :
        users[i] = everyone \/ \E j \in DOMAIN wallets : wallets[j] = users[i]

\* variant: a rule that fails counts as a rule that does not hold
evaluateRecord_errorsSkipped(ent, wallets) ==
    CASE ent.type = "RuleEntitlement" ->
            IF ent.conv = "error" \/ ent.eval = "error" THEN "false" ELSE ent.eval
      [] ent.type = "RuleEntitlementV2" ->
            IF ent.eval = "error" THEN "false" ELSE ent.eval
      [] ent.type = "UserEntitlement" ->
            IF \E i \in DOMAIN ent.users :
                  ent.users[i] = everyone \/ \E j \in DOMAIN wallets : wallets[j] = ent.users[i]
            THEN "true" ELSE "false"
      [] OTHER -> "false"

\* one record on its own: "true", "false" or "error"
evaluateRecord(ent, wallets) ==
    CASE ent.type = "RuleEntitlement" ->
            IF ent.conv = "error" THEN "error" ELSE ent.eval
      [] ent.type = "RuleEntitlementV2" -> ent.eval
      [] ent.type = "UserEntitlement" ->
            IF userEntitled(ent.users, wallets) THEN "true" ELSE "false"
      [] OTHER -> "false"

\* variant: any record that holds grants, wherever it stands in the list
evaluateFrom_anyOrder(entitlements, wallets, i) ==
    IF \E k \in i..Len(entitlements) : evaluateRecord(entitlements[k], wallets) = "true"
    THEN [allowed |-> TRUE, err |-> "none", evaluated |-> Len(entitlements)]
    ELSE IF \E k \in i..Len(entitlements) : evaluateRecord(entitlements[k], wallets) = "error"
    THEN [allowed |-> FALSE, err |-> "rule", evaluated |-> Len(entitlements)]
    ELSE [allowed |-> FALSE, err |-> "none", evaluated |-> Len(entitlements)]

RECURSIVE evaluateFrom(_, _, _)
evaluateFrom(entitlements, wallets, i) ==
    IF i > Len(entitlements) THEN [allowed |-> FALSE, err |-> "none", evaluated |-> i - 1]
    ELSE LET r == evaluateRecord(entitlements[i], wallets)
         IN IF r = "error" THEN [allowed |-> FALSE, err |-> "rule", evaluated |-> i]
            ELSE IF r = "true" THEN [allowed |-> TRUE, err |-> "none", evaluated |-> i]
            ELSE evaluateFrom(entitlements, wallets, i + 1)

evaluateEntitlementData(entitlements, args) ==
    evaluateFrom(entitlements, deserializeWallets(args.linkedWallets), 1)

(***************************************************************************)
(* Construction.                                                           *)
(***************************************************************************)
NewChainAuth(linkedWalletsLimit, walletLinkErr) ==
    IF walletLinkErr
    THEN [constructed |-> FALSE, walletLinkContract |-> "nil", linkedWalletsLimit |-> 0,
          configured |-> linkedWalletsLimit]
    ELSE [constructed |-> TRUE, walletLinkContract |-> "set",
          linkedWalletsLimit |-> IF linkedWalletsLimit <= 0 THEN DEFAULT_MAX_WALLETS
                                 ELSE linkedWalletsLimit,
          configured |-> linkedWalletsLimit]

(***************************************************************************)
(* State.                                                                  *)
(***************************************************************************)
VARIABLES
    ca,                      \* the chainAuth value (or the failed construction)
    pc,                      \* where each request stands in IsEntitled
    args,                    \* the ChainAuthArgs of each request
    ret,                     \* what IsEntitled returned to each request
    ctxDone,                 \* the request's timeout context has expired
    frame,                   \* locals of checkEntitlement
    probes,                  \* the checkMembership goroutines, one per wallet
    isMemberResults,         \* buffered channel of probe results
    isMemberError,           \* buffered channel of probe errors
    isMemberClosed,          \* the two channels: "unmade", "open" or "closed"
    isMemberCancelled,       \* isMemberCancel was called
    entitlementCache,
    membershipCache,
    entitlementManagerCache,
    linkedWalletCache,
    trace,                   \* per request: what it called, for the properties
    receipt                  \* the last VerifyReceipt call: inputs and outcome

reqVars == <<pc, args, ret, ctxDone, frame>>

fanVars == <<probes, isMemberResults, isMemberError, isMemberClosed, isMemberCancelled>>

cacheVars == <<entitlementCache, membershipCache, entitlementManagerCache, linkedWalletCache>>

vars == <<ca, now, receipt, reqVars, fanVars, cacheVars, trace>>

NoFrame ==
    [wallets |-> <<>>, lwErr |-> "none", args |-> NewChainAuthArgsForSpace(NoStream, zeroAddress, "Undefined"),
     isMember |-> FALSE, isExpired |-> TRUE, membershipError |-> <<>>,
     owner |-> zeroAddress, entitlementData |-> <<>>, banned |-> "unset"]

\* called: the stages the request entered; enabled: what the enable check
\* said; busted, bustSeen: whether getLinkedWallets busted, and whose
\* resolver calls were running then; lwFrom: whose resolver call produced
\* the wallets; received: the results the collector took off the channel
\* start: when IsEntitled was entered; hit: the outer cache answered;
\* lookup, afterBust: what the lookup of the wallets did, and after which bust
NoTrace == [called |-> {}, enabled |-> "unset", busted |-> FALSE, bustSeen |-> {},
            lwFrom |-> "none", received |-> {}, start |-> 0, hit |-> FALSE,
            lookup |-> "none", afterBust |-> "no"]

\* before any VerifyReceipt call
NoReceipt == [state |-> "none"]

Init ==
    /\ now = 0
    /\ receipt = NoReceipt
    /\ ca \in {NewChainAuth(l, e) : l \in CfgLimits, e \in BOOLEAN}
    /\ pc = [r \in Reqs |-> "idle"]
    /\ args = [r \in Reqs |-> NoFrame.args]
    /\ ret = [r \in Reqs |-> NoDecision]
    /\ ctxDone = [r \in Reqs |-> FALSE]
    /\ frame = [r \in Reqs |-> NoFrame]
    /\ probes = [r \in Reqs |-> <<>>]
    /\ isMemberResults = [r \in Reqs |-> <<>>]
    /\ isMemberError = [r \in Reqs |-> <<>>]
    /\ isMemberClosed = [r \in Reqs |-> "unmade"]
    /\ isMemberCancelled = [r \in Reqs |-> FALSE]
    /\ entitlementCache = newEntitlementCache
    /\ membershipCache = newEntitlementCache
    /\ entitlementManagerCache = newEntitlementCache
    /\ linkedWalletCache = newEntitlementCache
    /\ trace = [r \in Reqs |-> NoTrace]

(***************************************************************************)
(* Inputs: the requests, and the answers of the collaborators.             *)
(***************************************************************************)
Permissions == {"Read", "Write"}

Requests ==
    UNION {{NewChainAuthArgsForSpace(SpaceS, p, perm) : perm \in Permissions}
           \cup {NewChainAuthArgsForChannel(SpaceS, ChannelC, p, perm) : perm \in Permissions}
           \cup {NewChainAuthArgsForIsSpaceMember(SpaceS, p)}
           \cup {NewChainAuthArgsForIsWalletLinked(p, w) : w \in WalletAddr}
           : p \in Principals}

\* a contract call answers, fails, or fails because its context is done
RpcOutcomes == {"ok", "err", "ctx"}

MembershipStatus(isMember, isExpired) == [IsMember |-> isMember, IsExpired |-> isExpired]

Statuses == {MembershipStatus(FALSE, FALSE), MembershipStatus(TRUE, TRUE),
             MembershipStatus(TRUE, FALSE)}

NoStatus == MembershipStatus(FALSE, FALSE)

\* a goroutine: running, or finished with what it sent
Running == [state |-> "running", status |-> NoStatus]

Finished(how, status) == [state |-> how, status |-> status]

(***************************************************************************)
(* Leaving IsEntitled: the outer executeUsingCache stores a decision under *)
(* the request, an error is not stored; callers waiting on the same key    *)
(* receive the same outcome; the deferred cancels run.                     *)
(***************************************************************************)
SameFlight(r, q) == q = r \/ (pc[q] = "outerWait" /\ args[q] = args[r])

\* variant: a failed computation leaves a denial behind
Return_errorsStored(r, out, ec) ==
    /\ pc' = [q \in Reqs |-> IF SameFlight(r, q) THEN "done" ELSE pc[q]]
    /\ ret' = [q \in Reqs |-> IF SameFlight(r, q) THEN out ELSE ret[q]]
    /\ entitlementCache' =
          cacheStore(ec, args[r], boolCacheResult(out.allowed, out.reason))
    /\ ctxDone' = [ctxDone EXCEPT ![r] = TRUE]
    /\ isMemberCancelled' = [isMemberCancelled EXCEPT ![r] = TRUE]

\* variant: the decision is stored without its reason
Return_reasonDropped(r, out, ec) ==
    /\ pc' = [q \in Reqs |-> IF SameFlight(r, q) THEN "done" ELSE pc[q]]
    /\ ret' = [q \in Reqs |-> IF SameFlight(r, q) THEN out ELSE ret[q]]
    /\ entitlementCache' =
          IF out.err = "none"
          THEN cacheStore(ec, args[r], boolCacheResult(out.allowed, "NONE"))
          ELSE cacheFail(ec, args[r])
    /\ ctxDone' = [ctxDone EXCEPT ![r] = TRUE]
    /\ isMemberCancelled' = [isMemberCancelled EXCEPT ![r] = TRUE]

Return(r, out, ec) ==
    /\ pc' = [q \in Reqs |-> IF SameFlight(r, q) THEN "done" ELSE pc[q]]
    /\ ret' = [q \in Reqs |-> IF SameFlight(r, q) THEN out ELSE ret[q]]
    /\ entitlementCache' =
          IF out.err = "none"
          THEN cacheStore(ec, args[r], boolCacheResult(out.allowed, out.reason))
          ELSE cacheFail(ec, args[r])
    /\ ctxDone' = [ctxDone EXCEPT ![r] = TRUE]
    /\ isMemberCancelled' = [isMemberCancelled EXCEPT ![r] = TRUE]

Goto(r, next, ec) ==
    /\ pc' = [pc EXCEPT ![r] = next]
    /\ entitlementCache' = ec
    /\ UNCHANGED <<ret, ctxDone, isMemberCancelled>>

Called(r, what) == trace' = [trace EXCEPT ![r].called = @ \cup what]

(***************************************************************************)
(* IsEntitled: the lookup of the outer cache under the request itself.     *)
(***************************************************************************)
\* variant: a miss starts a computation even when one is running for the key
IsEntitled_alwaysComputes(r, a) ==
    /\ ca.constructed
    /\ pc[r] = "idle"
    /\ args' = [args EXCEPT ![r] = a]
    /\ trace' = [trace EXCEPT ![r].start = now,
                              ![r].hit = cacheHas(entitlementCache, a)]
    /\ IF cacheHas(entitlementCache, a)
       THEN /\ pc' = [pc EXCEPT ![r] = "done"]
            /\ ret' = [ret EXCEPT ![r] = Decision(cacheGet(entitlementCache, a))]
            /\ UNCHANGED entitlementCache
       ELSE /\ pc' = [pc EXCEPT ![r] = "checkStreamIsEnabled"]
            /\ entitlementCache' = cacheBegin(entitlementCache, a)
            /\ UNCHANGED ret
    /\ UNCHANGED <<ca, now, receipt, ctxDone, frame, fanVars, membershipCache,
                   entitlementManagerCache, linkedWalletCache>>

IsEntitled(r, a) ==
    /\ ca.constructed
    /\ pc[r] = "idle"
    /\ args' = [args EXCEPT ![r] = a]
    /\ trace' = [trace EXCEPT ![r].start = now,
                              ![r].hit = cacheHas(entitlementCache, a)]
    /\ IF cacheHas(entitlementCache, a)
       THEN /\ pc' = [pc EXCEPT ![r] = "done"]
            /\ ret' = [ret EXCEPT ![r] = Decision(cacheGet(entitlementCache, a))]
            /\ UNCHANGED entitlementCache
       ELSE IF a \in entitlementCache.inflight
       THEN /\ pc' = [pc EXCEPT ![r] = "outerWait"]
            /\ UNCHANGED <<ret, entitlementCache>>
       ELSE /\ pc' = [pc EXCEPT ![r] = "checkStreamIsEnabled"]
            /\ entitlementCache' = cacheBegin(entitlementCache, a)
            /\ UNCHANGED ret
    /\ UNCHANGED <<ca, now, receipt, ctxDone, frame, fanVars, membershipCache,
                   entitlementManagerCache, linkedWalletCache>>

\* the timeout of checkEntitlement's context fires, or the caller cancels
CtxDone(r) ==
    /\ pc[r] \notin {"idle", "outerWait", "done"}
    /\ ~ctxDone[r]
    /\ ctxDone' = [ctxDone EXCEPT ![r] = TRUE]
    /\ UNCHANGED <<ca, now, receipt, pc, args, ret, frame, fanVars, cacheVars, trace>>

\* time passes
Tick ==
    /\ now < MaxTime
    /\ now' = now + 1
    /\ UNCHANGED <<ca, receipt, reqVars, fanVars, cacheVars, trace>>

(***************************************************************************)
(* checkStreamIsEnabled, through checkSpaceEnabled / checkChannelEnabled.  *)
(***************************************************************************)
isSpaceEnabledUncached(isDisabled) == boolCacheResult(~isDisabled, "SPACE_DISABLED")

\* variant: a disabled channel reported with the space's reason
isChannelEnabledUncached_spaceReason(isDisabled) ==
    boolCacheResult(~isDisabled, "SPACE_DISABLED")

isChannelEnabledUncached(isDisabled) == boolCacheResult(~isDisabled, "CHANNEL_DISABLED")

\* which enable check a kind gets: "space", "channel", "skip" or "unknown"
checkStreamIsEnabled(kind) ==
    IF kind = "Space" \/ kind = "IsSpaceMember" THEN "space"
    ELSE IF kind = "Channel" THEN "channel"
    ELSE IF kind = "IsWalletLinked" THEN "skip"
    ELSE "unknown"

CheckStreamIsEnabled(r, out, isDisabled) ==
    /\ pc[r] = "checkStreamIsEnabled"
    /\ out = "ctx" => ctxDone[r]
    /\ LET a == args[r]
           which == checkStreamIsEnabled(a.kind)
           key == IF which = "channel"
                  THEN newArgsForEnabledChannel(a.spaceId, a.channelId)
                  ELSE newArgsForEnabledSpace(a.spaceId)
           hit == cacheHas(entitlementCache, key)
           computed == IF which = "channel" THEN isChannelEnabledUncached(isDisabled)
                       ELSE isSpaceEnabledUncached(isDisabled)
           called == which \in {"space", "channel"}
           waits == called /\ cacheLookup(entitlementCache, key) = "join"
           failed == called /\ ~hit /\ out # "ok"
           isEnabled == IF ~called THEN boolCacheResult(TRUE, "NONE")
                        ELSE IF hit THEN cacheGet(entitlementCache, key)
                        ELSE computed
           ec == IF called /\ ~hit /\ ~failed
                 THEN cacheStore(entitlementCache, key, computed)
                 ELSE entitlementCache
       IN /\ trace' = [trace EXCEPT
                          ![r].called = @ \cup (IF called THEN {"enable"} ELSE {}),
                          ![r].enabled = IF ~called THEN "skipped"
                                         ELSE IF waits THEN "waiting"
                                         ELSE IF failed THEN "error"
                                         ELSE IF isEnabled.allowed THEN "enabled"
                                         ELSE "disabled"]
          /\ IF which = "unknown" THEN Return(r, Failure("INTERNAL"), ec)
             ELSE IF waits THEN Goto(r, "enableWait", entitlementCache)
             ELSE IF failed THEN Return(r, Failure(out), ec)
             ELSE IF ~isEnabled.allowed
             THEN Return(r, Decision(boolCacheResult(FALSE, isEnabled.reason)), ec)
             ELSE Goto(r, "getLinkedWallets", ec)
    /\ UNCHANGED <<ca, now, receipt, args, frame, probes, isMemberResults, isMemberError,
                   isMemberClosed, membershipCache, entitlementManagerCache,
                   linkedWalletCache>>

(***************************************************************************)
(* getLinkedWallets: the bust, then the lookup in linkedWalletCache, then  *)
(* (on a miss) getLinkedWalletsUncached.  Waiters on an in-flight key get  *)
(* what the computation they joined returns.                               *)
(***************************************************************************)
shouldBust(a) ==
    a.permission = "Read" \/ a.kind = "IsSpaceMember" \/ a.kind = "IsWalletLinked"

\* the requests whose own resolver call for this key is running
Resolving(key) ==
    {q \in Reqs : pc[q] = "getLinkedWalletsUncached"
                  /\ newArgsForLinkedWallets(args[q].principal) = key}

GetLinkedWallets(r) ==
    /\ pc[r] = "getLinkedWallets"
    /\ LET key == newArgsForLinkedWallets(args[r].principal)
       IN IF ca.walletLinkContract = "nil"
          THEN /\ frame' = [frame EXCEPT ![r].wallets = <<args[r].principal>>]
               /\ pc' = [pc EXCEPT ![r] = "checkWallets"]
               /\ UNCHANGED <<linkedWalletCache, trace>>
          ELSE /\ linkedWalletCache' =
                     IF shouldBust(args[r]) THEN bust(linkedWalletCache, key)
                     ELSE linkedWalletCache
               /\ trace' = [trace EXCEPT ![r].called = @ \cup {"getLinkedWallets"},
                                         ![r].busted = shouldBust(args[r]),
                                         ![r].bustSeen = Resolving(key)]
               /\ pc' = [pc EXCEPT ![r] = "lookupLinkedWallets"]
               /\ UNCHANGED frame
    /\ UNCHANGED <<ca, now, receipt, args, ret, ctxDone, fanVars, entitlementCache,
                   membershipCache, entitlementManagerCache>>

LookupLinkedWallets(r) ==
    /\ pc[r] = "lookupLinkedWallets"
    /\ LET key == newArgsForLinkedWallets(args[r].principal)
           how == cacheLookup(linkedWalletCache, key)
           seen == [trace[r] EXCEPT !.lookup = how,
                                    !.afterBust = cacheAfterBust(linkedWalletCache, key)]
       IN IF how = "hit"
          THEN /\ frame' = [frame EXCEPT
                               ![r].wallets = cacheGet(linkedWalletCache, key).wallets]
               /\ trace' = [trace EXCEPT
                               ![r] = [seen EXCEPT
                                         !.lwFrom = cacheGet(linkedWalletCache, key).by]]
               /\ pc' = [pc EXCEPT ![r] = "checkWallets"]
               /\ linkedWalletCache' = cacheLooked(linkedWalletCache, key)
          ELSE IF how = "join"
          THEN /\ pc' = [pc EXCEPT ![r] = "waitLinkedWallets"]
               /\ trace' = [trace EXCEPT ![r] = seen]
               /\ linkedWalletCache' = cacheLooked(linkedWalletCache, key)
               /\ UNCHANGED frame
          ELSE /\ pc' = [pc EXCEPT ![r] = "getLinkedWalletsUncached"]
               /\ trace' = [trace EXCEPT ![r] = seen]
               /\ linkedWalletCache' = cacheBegin(cacheLooked(linkedWalletCache, key), key)
               /\ UNCHANGED frame
    /\ UNCHANGED <<ca, now, receipt, args, ret, ctxDone, fanVars, entitlementCache,
                   membershipCache, entitlementManagerCache>>

GetLinkedWalletsUncached(r, out, wallets) ==
    /\ pc[r] = "getLinkedWalletsUncached"
    /\ out = "ctx" => ctxDone[r]
    /\ wallets \in WalletLists(args[r].principal)
    /\ LET key == newArgsForLinkedWallets(args[r].principal)
           served == {q \in Reqs :
                        q = r \/ (pc[q] = "waitLinkedWallets"
                                  /\ newArgsForLinkedWallets(args[q].principal) = key)}
       IN /\ pc' = [q \in Reqs |-> IF q \in served THEN "checkWallets" ELSE pc[q]]
          /\ IF out = "ok"
             THEN /\ linkedWalletCache' =
                        cacheStore(linkedWalletCache, key, [wallets |-> wallets, by |-> r])
                  /\ frame' = [q \in Reqs |->
                                 IF q \in served THEN [frame[q] EXCEPT !.wallets = wallets]
                                 ELSE frame[q]]
             ELSE /\ linkedWalletCache' = cacheFail(linkedWalletCache, key)
                  /\ frame' = [q \in Reqs |->
                                 IF q \in served THEN [frame[q] EXCEPT !.lwErr = out]
                                 ELSE frame[q]]
          /\ trace' = [q \in Reqs |->
                         IF q \in served THEN [trace[q] EXCEPT !.lwFrom = r] ELSE trace[q]]
    /\ UNCHANGED <<ca, now, receipt, args, ret, ctxDone, fanVars, entitlementCache,
                   membershipCache, entitlementManagerCache>>

(***************************************************************************)
(* checkEntitlement after the wallets are known: the IsWalletLinked fast   *)
(* path, the wallet cap, then the fan-out of one probe per wallet.         *)
(***************************************************************************)
\* variant: only the first wallet of the list is compared
isWalletLinked_firstOnly(wallets, walletAddress) ==
    IF wallets # <<>> /\ wallets[1] = walletAddress
    THEN boolCacheResult(TRUE, "NONE")
    ELSE boolCacheResult(FALSE, "WALLET_NOT_LINKED")

isWalletLinked(wallets, walletAddress) ==
    IF \E i \in DOMAIN wallets : wallets[i] = walletAddress
    THEN boolCacheResult(TRUE, "NONE")
    ELSE boolCacheResult(FALSE, "WALLET_NOT_LINKED")

\* variant: a list of exactly linkedWalletsLimit wallets is refused too
tooManyWallets_atLimit(wallets, linkedWalletsLimit) == Len(wallets) >= linkedWalletsLimit

tooManyWallets(wallets, linkedWalletsLimit) == Len(wallets) > linkedWalletsLimit

CheckWallets(r) ==
    /\ pc[r] = "checkWallets"
    /\ LET wallets == frame[r].wallets
       IN IF frame[r].lwErr # "none"
          THEN /\ Return(r, Failure(frame[r].lwErr), entitlementCache)
               /\ UNCHANGED <<frame, probes, isMemberClosed, trace>>
          ELSE IF args[r].kind = "IsWalletLinked"
          THEN /\ Return(r, Decision(isWalletLinked(wallets, args[r].walletAddress)),
                         entitlementCache)
               /\ UNCHANGED <<frame, probes, isMemberClosed, trace>>
          ELSE IF tooManyWallets(wallets, ca.linkedWalletsLimit)
          THEN /\ Return(r, Failure("RESOURCE_EXHAUSTED"), entitlementCache)
               /\ UNCHANGED <<frame, probes, isMemberClosed, trace>>
          ELSE /\ frame' = [frame EXCEPT ![r].args = withLinkedWallets(args[r], wallets)]
               /\ probes' = [probes EXCEPT ![r] = [i \in DOMAIN wallets |-> Running]]
               /\ isMemberClosed' = [isMemberClosed EXCEPT ![r] = "open"]
               /\ Called(r, {"checkMembership"})
               /\ Goto(r, "collect", entitlementCache)
    /\ UNCHANGED <<ca, now, receipt, args, isMemberResults, isMemberError, membershipCache,
                   entitlementManagerCache, linkedWalletCache>>

(***************************************************************************)
(* checkMembership: one goroutine per wallet.  It sends one message, its   *)
(* result on isMemberResults or its error on isMemberError.  A call whose  *)
(* context is done (the timeout, or isMemberCancel) may still answer.      *)
(***************************************************************************)
\* variant: the channels hold one message each
channelCapacity_one(wallets) == 1

\* make(chan ..., len(wallets)), for both channels
channelCapacity(wallets) == Len(wallets)

\* a send on a buffered channel goes through while the buffer has room
canSend(channel, capacity) == Len(channel) < capacity

CheckMembership(r, i, out, status) ==
    /\ i \in DOMAIN probes[r]
    /\ probes[r][i].state = "running"
    /\ out = "ctx" => (ctxDone[r] \/ isMemberCancelled[r])
    /\ LET key == membershipArgs(args[r].spaceId, frame[r].wallets[i])
           hit == cacheHas(membershipCache, key)
           result == IF hit THEN cacheGet(membershipCache, key) ELSE status
       IN IF hit \/ out = "ok"
          THEN /\ membershipCache' =
                     IF hit THEN membershipCache
                     ELSE cacheStore(membershipCache, key, status)
               /\ canSend(isMemberResults[r], channelCapacity(frame[r].wallets))
               /\ isMemberResults' = [isMemberResults EXCEPT ![r] = Append(@, result)]
               /\ probes' = [probes EXCEPT ![r][i] = Finished("result", result)]
               /\ UNCHANGED isMemberError
          ELSE /\ canSend(isMemberError[r], channelCapacity(frame[r].wallets))
               /\ isMemberError' = [isMemberError EXCEPT ![r] = Append(@, out)]
               /\ probes' = [probes EXCEPT ![r][i] = Finished(out, NoStatus)]
               /\ UNCHANGED <<membershipCache, isMemberResults>>
    /\ UNCHANGED <<ca, now, receipt, reqVars, isMemberClosed, isMemberCancelled, entitlementCache,
                   entitlementManagerCache, linkedWalletCache, trace>>

\* variant: the channels are closed without waiting for the probes
CloseChannels_early(r) ==
    /\ isMemberClosed[r] = "open"
    /\ isMemberClosed' = [isMemberClosed EXCEPT ![r] = "closed"]
    /\ UNCHANGED <<ca, now, receipt, reqVars, probes, isMemberResults, isMemberError,
                   isMemberCancelled, cacheVars, trace>>

\* the goroutine that waits for isMemberWg and closes both channels
CloseChannels(r) ==
    /\ isMemberClosed[r] = "open"
    /\ \A i \in DOMAIN probes[r] : probes[r][i].state # "running"
    /\ isMemberClosed' = [isMemberClosed EXCEPT ![r] = "closed"]
    /\ UNCHANGED <<ca, now, receipt, reqVars, probes, isMemberResults, isMemberError,
                   isMemberCancelled, cacheVars, trace>>

(***************************************************************************)
(* The collector: the loop over isMemberResults, and what follows it.      *)
(***************************************************************************)
\* variant: the loop ends on any membership, expired or not
collectResult_breakOnExpired(isMember, isExpired, result) ==
    IF result.IsMember
    THEN [isMember |-> TRUE, isExpired |-> FALSE, break |-> TRUE]
    ELSE [isMember |-> isMember, isExpired |-> isExpired, break |-> FALSE]

\* variant: an expired membership is not remembered as a membership
collectResult_expiredForgotten(isMember, isExpired, result) ==
    IF result.IsMember /\ ~result.IsExpired
    THEN [isMember |-> TRUE, isExpired |-> FALSE, break |-> TRUE]
    ELSE [isMember |-> isMember, isExpired |-> isExpired, break |-> FALSE]

\* variant: the loop goes on after an unexpired membership
collectResult_noBreak(isMember, isExpired, result) ==
    IF result.IsMember
    THEN IF ~result.IsExpired
         THEN [isMember |-> TRUE, isExpired |-> FALSE, break |-> FALSE]
         ELSE [isMember |-> TRUE, isExpired |-> isExpired, break |-> FALSE]
    ELSE [isMember |-> isMember, isExpired |-> isExpired, break |-> FALSE]

\* one iteration of the loop: the locals after it, and whether it breaks
collectResult(isMember, isExpired, result) ==
    IF result.IsMember
    THEN IF ~result.IsExpired
         THEN [isMember |-> TRUE, isExpired |-> FALSE, break |-> TRUE]
         ELSE [isMember |-> TRUE, isExpired |-> isExpired, break |-> FALSE]
    ELSE [isMember |-> isMember, isExpired |-> isExpired, break |-> FALSE]

\* variant: errors of a done context are left out of the aggregate
collectErrors_skipCancelled(errors) ==
    SelectSeq(errors, LAMBDA e : e # "nil" /\ e # "ctx")

\* the errors the code aggregates once the error channel is closed
collectErrors(errors) == SelectSeq(errors, LAMBDA e : e # "nil")

\* after the loop: an error, a denial, or "proceed"
Proceed == [allowed |-> TRUE, reason |-> "NONE", err |-> "proceed"]

\* variant: an expired membership passes the membership stage
membershipOutcome_expiredProceeds(isMember, isExpired, errors) ==
    IF ~isMember
    THEN IF collectErrors(errors) # <<>>
         THEN [out |-> Failure("CANNOT_CHECK_ENTITLEMENTS"),
               membershipError |-> collectErrors(errors), drained |-> TRUE]
         ELSE [out |-> Decision(boolCacheResult(FALSE, "MEMBERSHIP")),
               membershipError |-> <<>>, drained |-> TRUE]
    ELSE [out |-> Proceed, membershipError |-> <<>>, drained |-> FALSE]

\* variant: the errors are consulted before the membership flags
membershipOutcome_errorsFirst(isMember, isExpired, errors) ==
    IF collectErrors(errors) # <<>> /\ (~isMember \/ isExpired)
    THEN [out |-> Failure("CANNOT_CHECK_ENTITLEMENTS"),
          membershipError |-> collectErrors(errors), drained |-> TRUE]
    ELSE IF ~isMember
    THEN [out |-> Decision(boolCacheResult(FALSE, "MEMBERSHIP")),
          membershipError |-> <<>>, drained |-> TRUE]
    ELSE IF isExpired
    THEN [out |-> Decision(boolCacheResult(FALSE, "MEMBERSHIP_EXPIRED")),
          membershipError |-> <<>>, drained |-> FALSE]
    ELSE [out |-> Proceed, membershipError |-> <<>>, drained |-> FALSE]

membershipOutcome(isMember, isExpired, errors) ==
    IF ~isMember
    THEN IF collectErrors(errors) # <<>>
         THEN [out |-> Failure("CANNOT_CHECK_ENTITLEMENTS"),
               membershipError |-> collectErrors(errors), drained |-> TRUE]
         ELSE [out |-> Decision(boolCacheResult(FALSE, "MEMBERSHIP")),
               membershipError |-> <<>>, drained |-> TRUE]
    ELSE IF isExpired
    THEN [out |-> Decision(boolCacheResult(FALSE, "MEMBERSHIP_EXPIRED")),
          membershipError |-> <<>>, drained |-> FALSE]
    ELSE [out |-> Proceed, membershipError |-> <<>>, drained |-> FALSE]

Collect(r) ==
    /\ pc[r] = "collect"
    /\ IF isMemberResults[r] # <<>>
       THEN LET step == collectResult(frame[r].isMember, frame[r].isExpired,
                                      Head(isMemberResults[r]))
            IN /\ isMemberResults' = [isMemberResults EXCEPT ![r] = Tail(@)]
               /\ frame' = [frame EXCEPT ![r].isMember = step.isMember,
                                         ![r].isExpired = step.isExpired]
               /\ pc' = [pc EXCEPT ![r] = IF step.break THEN "areLinkedWalletsEntitled"
                                          ELSE "collect"]
               /\ isMemberCancelled' =
                     [isMemberCancelled EXCEPT ![r] = @ \/ step.break]
               /\ trace' = [trace EXCEPT ![r].received =
                                @ \cup {Head(isMemberResults[r])}]
               /\ UNCHANGED <<ret, ctxDone, entitlementCache, isMemberError>>
       ELSE /\ isMemberClosed[r] = "closed"
            /\ LET after == membershipOutcome(frame[r].isMember, frame[r].isExpired,
                                              isMemberError[r])
               IN /\ frame' = [frame EXCEPT ![r].membershipError = after.membershipError]
                  /\ isMemberError' = [isMemberError EXCEPT ![r] =
                                          IF after.drained THEN <<>> ELSE @]
                  /\ IF after.out = Proceed
                     THEN Goto(r, "areLinkedWalletsEntitled", entitlementCache)
                     ELSE Return(r, after.out, entitlementCache)
            /\ UNCHANGED <<isMemberResults, trace>>
    /\ UNCHANGED <<ca, now, receipt, args, probes, isMemberClosed, membershipCache,
                   entitlementManagerCache, linkedWalletCache>>

(***************************************************************************)
(* areLinkedWalletsEntitled: isEntitledToSpace / isEntitledToChannel look  *)
(* the request with its wallets up in entitlementCache; on a miss the      *)
(* Uncached function fetches the entitlements through                      *)
(* entitlementManagerCache and evaluates them.                             *)
(***************************************************************************)
\* variant: no reason goes with the result of the evaluation
entitlementsReason_none(kind) == "NONE"

entitlementsReason(kind) ==
    IF kind = "Space" THEN "SPACE_ENTITLEMENTS" ELSE "CHANNEL_ENTITLEMENTS"

entitlementCacheResult(allowed, entitlementData, owner) ==
    [allowed |-> allowed, entitlementData |-> entitlementData, owner |-> owner]

\* variant: the owner is not looked for among the wallets
ownerIsLinked_never(a, owner) == FALSE

ownerIsLinked(a, owner) ==
    LET wallets == deserializeWallets(a.linkedWallets)
    IN \E i \in DOMAIN wallets : wallets[i] = owner

\* variant: the answer of IsBanned is not acted on
evaluateWithEntitlements_banIgnored(a, owner, entitlements, banOut, banned) ==
    IF \E i \in DOMAIN deserializeWallets(a.linkedWallets) :
          deserializeWallets(a.linkedWallets)[i] = owner
    THEN [allowed |-> TRUE, err |-> "none", called |-> {}]
    ELSE IF banOut # "ok"
    THEN [allowed |-> FALSE, err |-> banOut, called |-> {"IsBanned"}]
    ELSE LET e == evaluateEntitlementData(entitlements, a)
         IN [allowed |-> e.allowed, err |-> e.err,
             called |-> {"IsBanned", "evaluateEntitlementData"}]

\* owner first, then the ban, then the records; called: the calls it made
evaluateWithEntitlements(a, owner, entitlements, banOut, banned) ==
    IF ownerIsLinked(a, owner)
    THEN [allowed |-> TRUE, err |-> "none", called |-> {}]
    ELSE IF banOut # "ok"
    THEN [allowed |-> FALSE, err |-> banOut, called |-> {"IsBanned"}]
    ELSE IF banned
    THEN [allowed |-> FALSE, err |-> "none", called |-> {"IsBanned"}]
    ELSE LET e == evaluateEntitlementData(entitlements, a)
         IN [allowed |-> e.allowed, err |-> e.err,
             called |-> {"IsBanned", "evaluateEntitlementData"}]

\* isEntitledToSpaceUncached / isEntitledToChannelUncached once the
\* entitlements are at hand: the result goes to entitlementCache under
\* the request with its wallets, and out of checkEntitlement
Evaluated(r, e) ==
    IF e.err # "none"
    THEN Return(r, Failure(e.err), cacheFail(entitlementCache, frame[r].args))
    ELSE LET result == boolCacheResult(e.allowed, entitlementsReason(args[r].kind))
         IN Return(r, Decision(result),
                   cacheStore(entitlementCache, frame[r].args, result))

\* with the entitlements at hand: the owner is decided at once, anyone
\* else waits for IsBanned
WithEntitlements(r, data) ==
    /\ frame' = [frame EXCEPT ![r].owner = data.owner,
                              ![r].entitlementData = data.entitlementData]
    /\ Called(r, {"entitlements", "evaluateWithEntitlements"})
    /\ IF ownerIsLinked(frame[r].args, data.owner)
       THEN Evaluated(r, evaluateWithEntitlements(frame[r].args, data.owner,
                                                  data.entitlementData, "ok", FALSE))
       ELSE Goto(r, "isBanned", cacheBegin(entitlementCache, frame[r].args))

AreLinkedWalletsEntitled(r) ==
    /\ pc[r] = "areLinkedWalletsEntitled"
    /\ IF args[r].kind = "IsSpaceMember"
       THEN /\ Return(r, Decision(boolCacheResult(TRUE, "NONE")), entitlementCache)
            /\ UNCHANGED <<frame, trace>>
       ELSE IF args[r].kind \notin {"Space", "Channel"}
       THEN /\ Return(r, Failure("INTERNAL"), entitlementCache)
            /\ UNCHANGED <<frame, trace>>
       ELSE IF cacheHas(entitlementCache, frame[r].args)
       THEN /\ Return(r, Decision(cacheGet(entitlementCache, frame[r].args)),
                      entitlementCache)
            /\ UNCHANGED <<frame, trace>>
       ELSE IF cacheLookup(entitlementCache, frame[r].args) = "join"
       THEN /\ Goto(r, "innerWait", entitlementCache)
            /\ UNCHANGED <<frame, trace>>
       ELSE IF cacheHas(entitlementManagerCache, frame[r].args)
       THEN WithEntitlements(r, cacheGet(entitlementManagerCache, frame[r].args))
       ELSE /\ Goto(r, "getEntitlements", cacheBegin(entitlementCache, frame[r].args))
            /\ Called(r, {"entitlements"})
            /\ UNCHANGED frame
    /\ UNCHANGED <<ca, now, receipt, args, probes, isMemberResults, isMemberError, isMemberClosed,
                   membershipCache, entitlementManagerCache, linkedWalletCache>>

\* getSpaceEntitlementsForPermissionUncached / getChannelEntitlements...
GetEntitlementsForPermission(r, out, owner, entitlementData) ==
    /\ pc[r] = "getEntitlements"
    /\ out = "ctx" => ctxDone[r]
    /\ IF out # "ok"
       THEN /\ Return(r, Failure(out), cacheFail(entitlementCache, frame[r].args))
            /\ UNCHANGED <<frame, entitlementManagerCache, trace>>
       ELSE LET data == entitlementCacheResult(TRUE, entitlementData, owner)
            IN /\ entitlementManagerCache' =
                     cacheStore(entitlementManagerCache, frame[r].args, data)
               /\ WithEntitlements(r, data)
    /\ UNCHANGED <<ca, now, receipt, args, probes, isMemberResults, isMemberError, isMemberClosed,
                   membershipCache, linkedWalletCache>>

\* evaluateWithEntitlements from the IsBanned call on
IsBanned(r, out, banned) ==
    /\ pc[r] = "isBanned"
    /\ out = "ctx" => ctxDone[r]
    /\ LET e == evaluateWithEntitlements(frame[r].args, frame[r].owner,
                                         frame[r].entitlementData, out, banned)
       IN /\ Evaluated(r, e)
          /\ Called(r, e.called)
          /\ frame' = [frame EXCEPT ![r].banned =
                          IF out # "ok" THEN "error"
                          ELSE IF banned THEN "true" ELSE "false"]
    /\ UNCHANGED <<ca, now, receipt, args, probes, isMemberResults, isMemberError, isMemberClosed,
                   membershipCache, entitlementManagerCache, linkedWalletCache>>

(***************************************************************************)
(* One request at a time: every answer of every collaborator.              *)
(***************************************************************************)
Owners == WalletAddr

Next ==
    \/ \E a \in Requests : IsEntitled("r1", a)
    \/ CtxDone("r1")
    \/ \E out \in RpcOutcomes, d \in BOOLEAN : CheckStreamIsEnabled("r1", out, d)
    \/ GetLinkedWallets("r1")
    \/ LookupLinkedWallets("r1")
    \/ \E out \in RpcOutcomes, w \in SeqsUpTo(WalletAddr, MaxWallets) :
          GetLinkedWalletsUncached("r1", out, w)
    \/ CheckWallets("r1")
    \/ \E i \in 1..MaxWallets, out \in RpcOutcomes, st \in Statuses :
          CheckMembership("r1", i, out, st)
    \/ CloseChannels("r1")
    \/ Collect("r1")
    \/ AreLinkedWalletsEntitled("r1")
    \/ \E out \in RpcOutcomes, o \in Owners, e \in RecordLists :
          GetEntitlementsForPermission("r1", out, o, e)
    \/ \E out \in RpcOutcomes, b \in BOOLEAN : IsBanned("r1", out, b)

Spec == Init /\ [][Next]_vars

\* the probe goroutines, the closer goroutine and the collector are
\* goroutines the Go scheduler keeps running: each takes its next step
SpecFanOut ==
    /\ Init /\ [][Next]_vars
    /\ WF_vars(\E i \in 1..MaxWallets, out \in RpcOutcomes, st \in Statuses :
                  CheckMembership("r1", i, out, st))
    /\ WF_vars(CloseChannels("r1"))
    /\ WF_vars(Collect("r1"))

(***************************************************************************)
(* Properties of the pipeline.  They are stated over the request's         *)
(* outcome (ret), the locals it left behind (frame), what its probes sent  *)
(* (probes) and the stages it entered (trace).                             *)
(***************************************************************************)
Done(r) == pc[r] = "done"

\* the request went through checkEntitlement (it was not an outer cache hit)
Computed(r) == trace[r].enabled # "unset"

Decided(r) == Done(r) /\ Computed(r) /\ ret[r].err = "none"

Fresh == MembershipStatus(TRUE, FALSE)

Expired == MembershipStatus(TRUE, TRUE)

ProbeReturned(r, status) ==
    \E i \in DOMAIN probes[r] : probes[r][i] = Finished("result", status)

ProbeFailed(r, how) ==
    \E i \in DOMAIN probes[r] : probes[r][i].state = how

ProbesComplete(r) ==
    /\ probes[r] # <<>>
    /\ \A i \in DOMAIN probes[r] : probes[r][i].state # "running"

OwnerAmongWallets(r) == frame[r].owner \in Range(frame[r].wallets)

SomeRecordHolds(r) ==
    \E j \in DOMAIN frame[r].entitlementData :
        evaluateRecord(frame[r].entitlementData[j], frame[r].wallets) = "true"

\* the stages that follow the enable check
AfterEnable ==
    {"getLinkedWallets", "checkMembership", "entitlements", "evaluateWithEntitlements",
     "IsBanned", "evaluateEntitlementData"}

\* the stages that follow the wallet resolution
AfterWallets == AfterEnable \ {"getLinkedWallets"}

\* the stages that follow the membership stage
AfterMembership == AfterWallets \ {"checkMembership"}

\* C1: a computed Space or Channel decision is allowed only if some probe
\* returned an unexpired membership and either the owner is among the
\* linked wallets or IsBanned answered false and some record evaluates to
\* true; when IsBanned answered true and the owner is not among the
\* wallets the decision is a denial, whatever the records say.
C1_AllowedNeedsMemberAndOwnerOrUnbannedRecord ==
    \A r \in Reqs :
        (Decided(r) /\ args[r].kind \in {"Space", "Channel"}) =>
            /\ ret[r].allowed =>
                  /\ ProbeReturned(r, Fresh)
                  /\ \/ OwnerAmongWallets(r)
                     \/ frame[r].banned = "false" /\ SomeRecordHolds(r)
            /\ (frame[r].banned = "true" /\ ~OwnerAmongWallets(r)) => ~ret[r].allowed

\* C1 happens: a banned non-owner is denied although a record holds
C1_Witness ==
    \E r \in Reqs :
        /\ Decided(r) /\ args[r].kind = "Space"
        /\ frame[r].banned = "true" /\ ~OwnerAmongWallets(r) /\ SomeRecordHolds(r)
        /\ ~ret[r].allowed

\* C2: once the entitlements are at hand and the owner is among the linked
\* wallets, the request is decided allowed at once, for every record list,
\* and neither IsBanned nor the evaluation of the records was entered.
C2_OwnerAllowedWithoutBanOrRecords ==
    \A r \in Reqs :
        ("evaluateWithEntitlements" \in trace[r].called /\ OwnerAmongWallets(r)) =>
            /\ Done(r)
            /\ ret[r].err = "none" /\ ret[r].allowed
            /\ trace[r].called \cap {"IsBanned", "evaluateEntitlementData"} = {}
            /\ frame[r].banned = "unset"

\* C2 happens: the owner is allowed though the only record's evaluation fails
C2_Witness ==
    \E r \in Reqs :
        /\ "evaluateWithEntitlements" \in trace[r].called /\ OwnerAmongWallets(r)
        /\ frame[r].entitlementData = <<RuleV2("error")>>
        /\ Done(r) /\ ret[r].allowed

\* C3: when the enable check reports disabled, the request is decided
\* (false, CHANNEL_DISABLED) for a Channel and (false, SPACE_DISABLED) for a
\* Space or IsSpaceMember, without error, and no later stage is entered.
C3_DisabledDeniesAndStops ==
    \A r \in Reqs :
        trace[r].enabled = "disabled" =>
            /\ Done(r)
            /\ ret[r] = Decision(boolCacheResult(FALSE,
                            IF args[r].kind = "Channel" THEN "CHANNEL_DISABLED"
                            ELSE "SPACE_DISABLED"))
            /\ trace[r].called = {"enable"}
            /\ probes[r] = <<>> /\ trace[r].lwFrom = "none"

\* C3 happens: a Channel request met a disabled channel
C3_Witness ==
    \E r \in Reqs :
        /\ trace[r].enabled = "disabled" /\ args[r].kind = "Channel"
        /\ ret[r].reason = "CHANNEL_DISABLED"

\* the wallets of a Space, Channel or IsSpaceMember request are resolved
\* and the request is past the cap
PastCap(r) ==
    /\ args[r].kind \in {"Space", "Channel", "IsSpaceMember"}
    /\ trace[r].lwFrom # "none" /\ frame[r].lwErr = "none"
    /\ pc[r] \notin {"lookupLinkedWallets", "waitLinkedWallets",
                     "getLinkedWalletsUncached", "checkWallets"}

\* C4: linkedWalletsLimit is the configured value, or 10 when that is not
\* positive; a resolved list longer than it fails the request with
\* RESOURCE_EXHAUSTED before any probe, fetch, ban check or evaluation;
\* a list no longer than it (one of exactly the limit included) starts
\* the probes.
C4_WalletCap ==
    /\ ca.constructed =>
          ca.linkedWalletsLimit = (IF ca.configured <= 0 THEN 10 ELSE ca.configured)
    /\ \A r \in Reqs :
          PastCap(r) =>
             IF Len(frame[r].wallets) > ca.linkedWalletsLimit
             THEN /\ Done(r) /\ ret[r] = Failure("RESOURCE_EXHAUSTED")
                  /\ trace[r].called \cap AfterWallets = {}
                  /\ probes[r] = <<>>
             ELSE /\ "checkMembership" \in trace[r].called
                  /\ Len(probes[r]) = Len(frame[r].wallets)

\* C4 happens: two wallets against a limit of one
C4_Witness ==
    \E r \in Reqs :
        /\ PastCap(r) /\ Len(frame[r].wallets) > ca.linkedWalletsLimit
        /\ ret[r].err = "RESOURCE_EXHAUSTED"

\* C5: when every probe has completed and the collector is through, some
\* probe returned a membership and every returned membership is expired,
\* the decision is (false, MEMBERSHIP_EXPIRED) without error, and neither
\* the entitlement fetch nor the evaluation was entered.
C5_OnlyExpiredMemberships ==
    \A r \in Reqs :
        (/\ ProbesComplete(r) /\ pc[r] # "collect"
         /\ ProbeReturned(r, Expired) /\ ~ProbeReturned(r, Fresh)) =>
            /\ Done(r)
            /\ ret[r] = Decision(boolCacheResult(FALSE, "MEMBERSHIP_EXPIRED"))
            /\ trace[r].called \cap AfterMembership = {}

\* C5 happens: an expired membership beside a probe that failed
C5_Witness ==
    \E r \in Reqs :
        /\ ProbesComplete(r) /\ Done(r)
        /\ ProbeReturned(r, Expired) /\ ~ProbeReturned(r, Fresh) /\ ProbeFailed(r, "err")
        /\ ret[r].reason = "MEMBERSHIP_EXPIRED"

\* every probe is through, the collector too, and no probe returned a membership
NoMembership(r) ==
    /\ ProbesComplete(r) /\ pc[r] # "collect"
    /\ ~ProbeReturned(r, Fresh) /\ ~ProbeReturned(r, Expired)

FailedProbes(r) == {i \in DOMAIN probes[r] : probes[r][i].state \in {"err", "ctx"}}

\* C6, as amended: when no probe returned a membership, every error a
\* probe sent is aggregated, those of a done context included: if any
\* probe failed the call fails with CANNOT_CHECK_ENTITLEMENTS, and only
\* when every probe returned a result is the decision (false, MEMBERSHIP).
C6_EveryProbeErrorCounts ==
    \A r \in Reqs :
        NoMembership(r) =>
            /\ Done(r)
            /\ IF FailedProbes(r) # {}
               THEN /\ ret[r] = Failure("CANNOT_CHECK_ENTITLEMENTS")
                    /\ Len(frame[r].membershipError) = Cardinality(FailedProbes(r))
               ELSE ret[r] = Decision(boolCacheResult(FALSE, "MEMBERSHIP"))

\* C6 happens: the only probe errors come from the done context
C6_Witness ==
    \E r \in Reqs :
        /\ NoMembership(r) /\ Done(r)
        /\ ProbeFailed(r, "ctx") /\ ~ProbeFailed(r, "err")
        /\ ret[r].err = "CANNOT_CHECK_ENTITLEMENTS"

\* C6, as stated: errors of a done context are left out, so that a request
\* whose only probe errors are such errors is decided (false, MEMBERSHIP).
C6_CancellationsExcluded ==
    \A r \in Reqs :
        NoMembership(r) =>
            /\ Done(r)
            /\ IF ProbeFailed(r, "err")
               THEN ret[r] = Failure("CANNOT_CHECK_ENTITLEMENTS")
               ELSE ret[r] = Decision(boolCacheResult(FALSE, "MEMBERSHIP"))

\* C7: the probe errors are aggregated only when no probe returned a
\* membership; when some probe returned an unexpired membership, the
\* request, once decided, has neither failed with the membership stage's
\* error nor been denied by the membership stage, whatever the other
\* probes sent on the error channel.
C7_ErrorsIgnoredOnceMember ==
    \A r \in Reqs :
        /\ (ProbeReturned(r, Fresh) \/ ProbeReturned(r, Expired)) =>
              /\ frame[r].membershipError = <<>>
              /\ ret[r].err # "CANNOT_CHECK_ENTITLEMENTS"
        /\ (ProbeReturned(r, Fresh) /\ Done(r)) =>
              ~(ret[r].err = "none" /\ ret[r].reason \in {"MEMBERSHIP", "MEMBERSHIP_EXPIRED"})

\* C7 happens: allowed, with an error of another probe left on the channel
C7_Witness ==
    \E r \in Reqs :
        /\ Decided(r) /\ ret[r].allowed /\ args[r].kind = "Channel"
        /\ ProbeReturned(r, Fresh) /\ isMemberError[r] = <<"err">>

\* C8: once the collector has received an unexpired membership it has
\* cancelled the probes' context and left the loop, and the next stage does
\* not wait for the probes that are still running.
C8_FirstMembershipEndsTheWait ==
    \A r \in Reqs :
        /\ Fresh \in trace[r].received =>
              /\ isMemberCancelled[r]
              /\ pc[r] # "collect"
              /\ frame[r].isMember /\ ~frame[r].isExpired
        /\ (pc[r] = "areLinkedWalletsEntitled" /\ ProbeFailed(r, "running")) =>
              ENABLED AreLinkedWalletsEntitled(r)

\* C8 happens: the decision is back while a probe is still running
C8_Witness ==
    \E r \in Reqs :
        /\ Decided(r) /\ ret[r].allowed
        /\ Fresh \in trace[r].received /\ ProbeFailed(r, "running")

\* C9: an IsWalletLinked request skips the enable check, starts no probe,
\* meets no wallet cap and no evaluation, and is decided (true, NONE) when
\* walletAddress is in the resolved list and (false, WALLET_NOT_LINKED)
\* when it is not.
C9_IsWalletLinkedFastPath ==
    \A r \in Reqs :
        (args[r].kind = "IsWalletLinked" /\ Computed(r)) =>
            /\ trace[r].enabled = "skipped"
            /\ trace[r].called \subseteq {"getLinkedWallets"}
            /\ probes[r] = <<>>
            /\ (Done(r) /\ frame[r].lwErr = "none") =>
                  ret[r] = Decision(IF args[r].walletAddress \in Range(frame[r].wallets)
                                    THEN boolCacheResult(TRUE, "NONE")
                                    ELSE boolCacheResult(FALSE, "WALLET_NOT_LINKED"))

\* C9 happens: the second of two wallets is linked, past a limit of one
C9_Witness ==
    \E r \in Reqs :
        /\ args[r].kind = "IsWalletLinked" /\ Decided(r) /\ ret[r].allowed
        /\ Len(frame[r].wallets) > ca.linkedWalletsLimit
        /\ frame[r].wallets[2] = args[r].walletAddress

(***************************************************************************)
(* Two requests at once, taken through the enable check and the wallet     *)
(* resolution: the bust and the lookup of getLinkedWallets are two steps,  *)
(* and the other request may move between them.                            *)
(***************************************************************************)
RequestsLW ==
    {NewChainAuthArgsForIsWalletLinked(2, w) : w \in WalletAddr}
    \cup {NewChainAuthArgsForSpace(SpaceS, 2, perm) : perm \in Permissions}

NextLW ==
    \/ \E r \in Reqs, a \in RequestsLW : IsEntitled(r, a)
    \/ \E r \in Reqs : CtxDone(r)
    \/ \E r \in Reqs, out \in RpcOutcomes, d \in BOOLEAN : CheckStreamIsEnabled(r, out, d)
    \/ \E r \in Reqs : GetLinkedWallets(r)
    \/ \E r \in Reqs : LookupLinkedWallets(r)
    \/ \E r \in Reqs, out \in RpcOutcomes, w \in SeqsUpTo(WalletAddr, MaxWallets) :
          GetLinkedWalletsUncached(r, out, w)
    \/ \E r \in Reqs : CheckWallets(r)

SpecLW == Init /\ [][NextLW]_vars

\* C10, as stated: a Read, IsSpaceMember or IsWalletLinked request busts
\* the principal's entry before its lookup, and that lookup always runs the
\* request's own resolver call: its wallets never come from a resolver call
\* of another request, least of all one that was running at the bust;
\* requests of the other shapes do not bust.
C10_BustedLookupResolvesItself ==
    \A r \in Reqs :
        "getLinkedWallets" \in trace[r].called =>
            IF \/ args[r].permission = "Read"
               \/ args[r].kind \in {"IsSpaceMember", "IsWalletLinked"}
            THEN /\ trace[r].busted
                 /\ trace[r].lwFrom \in {"none", r}
                 /\ trace[r].lwFrom \notin trace[r].bustSeen
            ELSE ~trace[r].busted

(***************************************************************************)
(* The scope a Channel request is checked against.                         *)
(***************************************************************************)
\* the decision looked the space's enable state up and found it enabled
SpaceFoundEnabled(r) ==
    /\ cacheHas(entitlementCache, newArgsForEnabledSpace(args[r].spaceId))
    /\ cacheGet(entitlementCache, newArgsForEnabledSpace(args[r].spaceId)).allowed

\* C11, as stated: a granted Channel request found its containing space
\* enabled during the decision.
C11_ChannelGrantFoundSpaceEnabled ==
    \A r \in Reqs :
        (Decided(r) /\ args[r].kind = "Channel" /\ ret[r].allowed) => SpaceFoundEnabled(r)

(***************************************************************************)
(* The everyone allowlist.                                                 *)
(***************************************************************************)
HoldsEveryone(rec) == rec.type = "UserEntitlement" /\ everyone \in Range(rec.users)

\* the record's conversion or evaluation returns an error
RecordFails(rec) ==
    \/ rec.type = "RuleEntitlement" /\ (rec.conv = "error" \/ rec.eval = "error")
    \/ rec.type = "RuleEntitlementV2" /\ rec.eval = "error"

\* evaluated for wallets that are neither owner nor banned, with a list
\* that holds an everyone allowlist
EveryoneCase(r) ==
    /\ Done(r) /\ Computed(r) /\ args[r].kind \in {"Space", "Channel"}
    /\ frame[r].banned = "false" /\ ~OwnerAmongWallets(r)
    /\ \E j \in DOMAIN frame[r].entitlementData : HoldsEveryone(frame[r].entitlementData[j])

FirstEveryone(r) ==
    CHOOSE j \in DOMAIN frame[r].entitlementData :
        /\ HoldsEveryone(frame[r].entitlementData[j])
        /\ \A k \in 1..(j - 1) : ~HoldsEveryone(frame[r].entitlementData[k])

\* C12, as amended: with an everyone allowlist in the list the request is
\* never denied; it is granted whenever no record standing before the
\* allowlist fails to convert or evaluate, and otherwise is granted or
\* fails with that record's error.
C12_EveryoneGrantsUnlessEarlierRecordFails ==
    \A r \in Reqs :
        EveryoneCase(r) =>
            /\ ret[r].err = "none" => ret[r].allowed
            /\ ret[r].err \in {"none", "rule"}
            /\ (\A k \in 1..(FirstEveryone(r) - 1) : ~RecordFails(frame[r].entitlementData[k]))
                  => (ret[r].err = "none" /\ ret[r].allowed)

\* C12 happens: the allowlist stands second, behind a rule that does not hold
C12_Witness ==
    \E r \in Reqs :
        /\ EveryoneCase(r)
        /\ frame[r].entitlementData = <<RuleV2("false"), UserList(<<everyone>>)>>
        /\ ret[r].allowed

\* C12, as stated: the request is granted wherever the allowlist stands.
C12_EveryoneGrantsAnywhere ==
    \A r \in Reqs : EveryoneCase(r) => (ret[r].err = "none" /\ ret[r].allowed)

(***************************************************************************)
(* IsSpaceMember.                                                          *)
(***************************************************************************)
\* C13: an IsSpaceMember request whose probes were started is decided
\* (true, NONE) exactly when some probe returned an unexpired membership,
\* and it never enters the entitlement fetch, IsBanned or the evaluation.
C13_IsSpaceMemberIsTheMembershipStage ==
    \A r \in Reqs :
        (args[r].kind = "IsSpaceMember" /\ "checkMembership" \in trace[r].called) =>
            /\ trace[r].called \cap AfterMembership = {}
            /\ frame[r].banned = "unset" /\ frame[r].entitlementData = <<>>
            /\ Done(r) =>
                  (ret[r] = Decision(boolCacheResult(TRUE, "NONE")) <=> ProbeReturned(r, Fresh))

\* C13 happens: granted on the second wallet, the first one's membership expired
C13_Witness ==
    \E r \in Reqs :
        /\ args[r].kind = "IsSpaceMember" /\ Done(r)
        /\ probes[r] = <<Finished("result", Expired), Finished("result", Fresh)>>
        /\ ret[r] = Decision(boolCacheResult(TRUE, "NONE"))

(***************************************************************************)
(* The order of the stages within one decision.                            *)
(***************************************************************************)
\* the wallet resolution of the request is through, without error
WalletsResolved(r) ==
    /\ trace[r].lwFrom # "none" /\ frame[r].lwErr = "none"
    /\ pc[r] \notin {"getLinkedWallets", "lookupLinkedWallets", "waitLinkedWallets",
                     "getLinkedWalletsUncached"}

\* C14: the wallet resolution starts only after the enable check is
\* through; the probes start only after the resolution is through, one per
\* wallet; the fetch, IsBanned and the evaluation start only after the
\* collector received an unexpired membership; and any probe that is still
\* running can be the next one to answer.
C14_StagesInOrder ==
    \A r \in Reqs :
        /\ pc[r] = "checkStreamIsEnabled" => trace[r].called = {}
        /\ "getLinkedWallets" \in trace[r].called => trace[r].enabled \in {"enabled", "skipped"}
        /\ "checkMembership" \in trace[r].called =>
              /\ "getLinkedWallets" \in trace[r].called
              /\ WalletsResolved(r)
              /\ Len(probes[r]) = Len(frame[r].wallets)
        /\ "checkMembership" \notin trace[r].called => probes[r] = <<>>
        /\ trace[r].called \cap AfterMembership # {} =>
              /\ "checkMembership" \in trace[r].called
              /\ Fresh \in trace[r].received
        /\ \A i \in DOMAIN probes[r] :
              probes[r][i].state = "running" => ENABLED CheckMembership(r, i, "ok", Fresh)

\* C14 happens: the fetch has started on the second probe's answer while
\* the first probe is still running
C14_Witness ==
    \E r \in Reqs :
        /\ Len(probes[r]) = 2
        /\ probes[r][1].state = "running" /\ probes[r][2] = Finished("result", Fresh)
        /\ pc[r] = "getEntitlements"

(***************************************************************************)
(* Errors of the collaborators.                                            *)
(***************************************************************************)
\* the records were evaluated for wallets that are neither owner nor banned
RecordsEvaluated(r) ==
    /\ Done(r) /\ Computed(r) /\ args[r].kind \in {"Space", "Channel"}
    /\ frame[r].banned = "false" /\ ~OwnerAmongWallets(r)

\* the entitlement fetch was called and did not deliver
FetchFailed(r) ==
    /\ Done(r) /\ "entitlements" \in trace[r].called
    /\ "evaluateWithEntitlements" \notin trace[r].called

RequestsCache ==
    {NewChainAuthArgsForSpace(SpaceS, 2, perm) : perm \in Permissions}
    \cup {NewChainAuthArgsForIsWalletLinked(3, 2)}

WalletsCache == {<<2>>, <<3>>}

InitCache == Init /\ ca = NewChainAuth(0, FALSE)

NextCache ==
    \/ Tick
    \/ \E r \in Reqs, a \in RequestsCache : IsEntitled(r, a)
    \/ \E r \in Reqs, out \in {"ok", "err"}, d \in BOOLEAN :
          CheckStreamIsEnabled(r, out, d)
    \/ \E r \in Reqs : GetLinkedWallets(r)
    \/ \E r \in Reqs : LookupLinkedWallets(r)
    \/ \E r \in Reqs, out \in {"ok", "err"}, w \in WalletsCache :
          GetLinkedWalletsUncached(r, out, w)
    \/ \E r \in Reqs : CheckWallets(r)
    \/ \E r \in Reqs, st \in {Fresh, NoStatus} : CheckMembership(r, 1, "ok", st)
    \/ \E r \in Reqs : CloseChannels(r)
    \/ \E r \in Reqs : Collect(r)
    \/ \E r \in Reqs : AreLinkedWalletsEntitled(r)
    \/ \E r \in Reqs, out \in {"ok", "err"}, o \in WalletAddr :
          GetEntitlementsForPermission(r, out, o, <<>>)
    \/ \E r \in Reqs : IsBanned(r, "ok", TRUE)

SpecCache == InitCache /\ [][NextCache]_vars

(***************************************************************************)
(* Single-flight.                                                          *)
(***************************************************************************)
\* the request is running checkEntitlement: the fn of the outer cache
InCheckEntitlement(r) == pc[r] \notin {"idle", "outerWait", "done"}

\* the request missed on a key whose fn was running, and took its outcome
JoinedOuter(q) == Done(q) /\ ~Computed(q) /\ ~trace[q].hit

JoinedWallets(q) == trace[q].lookup = "join" /\ pc[q] # "waitLinkedWallets"

\* C16: while a computation for a key is in flight its fn runs once: no two
\* requests run checkEntitlement under the same request key, no two run the
\* resolver for the same principal; and a caller that missed while the
\* computation was in flight ends with the result, or the error, of the
\* request that computed.
C16_SingleFlight ==
    /\ \A r, q \in Reqs :
          r # q /\ InCheckEntitlement(r) /\ InCheckEntitlement(q) => args[r] # args[q]
    /\ \A p \in Addr : Cardinality(Resolving(newArgsForLinkedWallets(p))) <= 1
    /\ \A q \in Reqs :
          JoinedOuter(q) =>
             \E r \in Reqs \ {q} :
                /\ args[r] = args[q] /\ Done(r) /\ Computed(r)
                /\ ret[q] = ret[r]
    /\ \A q \in Reqs :
          JoinedWallets(q) =>
             LET r == trace[q].lwFrom
             IN /\ r \in Reqs \ {q}
                /\ args[r].principal = args[q].principal
                /\ frame[q].wallets = frame[r].wallets
                /\ frame[q].lwErr = frame[r].lwErr

\* a caller took the error of the computation it joined
C16_Witness == \E q \in Reqs : JoinedOuter(q) /\ ret[q].err = "err"

\* a caller took the wallets of the resolver call it joined
JoinedWalletsReached == \E q \in Reqs : JoinedWallets(q) /\ frame[q].wallets # <<>>

(***************************************************************************)
(* Time to live.                                                           *)
(***************************************************************************)
\* the decision stored in the outer cache under the request of q
StoredDecision(q) == cacheEntry(entitlementCache, args[q])

\* how old the stored decision was when q entered IsEntitled
AgeAtEntry(q) == trace[q].start - StoredDecision(q).at

\* q entered IsEntitled when the decision stored for its request had aged out
EnteredAfterExpiry(q, ttl) ==
    /\ InCheckEntitlement(q)
    /\ \E e \in entitlementCache.entries : e.key = args[q]
    /\ AgeAtEntry(q) >= ttl

\* C17: a decision answered from the outer cache was, when the request
\* entered, no older than ShortTTL if it is a denial and no older than
\* LongTTL if it is a grant; put the other way round, a request that enters
\* after that age is not answered from the cache.
C17_ServedWithinTTL ==
    \A q \in Reqs :
       trace[q].hit =>
          /\ ret[q] = Decision(StoredDecision(q).val)
          /\ AgeAtEntry(q) >= 0
          /\ ~ret[q].allowed => AgeAtEntry(q) <= ShortTTL
          /\ ret[q].allowed => AgeAtEntry(q) <= LongTTL

\* a denial had aged ShortTTL when the request came again, and the request
\* runs checkEntitlement; so does one that came LongTTL after a grant
C17_Witness ==
    \E q \in Reqs :
       /\ EnteredAfterExpiry(q, ShortTTL)
       /\ ~StoredDecision(q).val.allowed
       /\ AgeAtEntry(q) = ShortTTL

GrantAgedOut ==
    \E q \in Reqs : EnteredAfterExpiry(q, LongTTL) /\ StoredDecision(q).val.allowed

(***************************************************************************)
(* The outer cache, keyed by the request.                                  *)
(***************************************************************************)
\* q was answered without any stage of checkEntitlement
NothingInvoked(q) ==
    /\ trace[q].called = {} /\ trace[q].enabled = "unset"
    /\ ~trace[q].busted /\ trace[q].lookup = "none" /\ trace[q].lwFrom = "none"
    /\ probes[q] = <<>> /\ frame[q] = NoFrame

\* the outer cache holds a decision for the request, younger than its TTL
DecisionWithinTTL(a) ==
    \E e \in entitlementCache.entries :
       /\ e.key = a
       /\ now - e.at < (IF e.val.allowed THEN LongTTL ELSE ShortTTL)

\* the step in which q enters IsEntitled
Enters(q) == pc[q] = "idle" /\ pc'[q] # "idle"

\* the step is answered from the outer cache: done at once, no cache touched
AnsweredAtOnce(q) ==
    /\ pc'[q] = "done"
    /\ ret'[q] = Decision(cacheEntry(entitlementCache, args'[q]).val)
    /\ trace'[q].hit
    /\ UNCHANGED <<cacheVars, frame, fanVars>>

\* C19: a request answered from the outer cache was preceded by a request
\* with the same arguments that ran checkEntitlement and returned the same
\* (allowed, reason), and it invoked nothing; a request for which no decision
\* is stored runs checkEntitlement (or waits for the one running), and a
\* request entering within the TTL of the stored decision is answered at once.
C19_RepeatIsAHit ==
    /\ [](\A q \in Reqs :
            trace[q].hit =>
               /\ Done(q) /\ NothingInvoked(q)
               /\ \E r \in Reqs \ {q} :
                     /\ args[r] = args[q] /\ Decided(r)
                     /\ ret[q] = ret[r])
    /\ [][\A q \in Reqs :
             Enters(q) =>
                IF DecisionWithinTTL(args'[q]) THEN AnsweredAtOnce(q)
                ELSE ~trace'[q].hit /\ pc'[q] \in {"checkStreamIsEnabled", "outerWait"}]_vars

\* a grant was repeated from the cache
C19_Witness == \E q \in Reqs : trace[q].hit /\ ret[q].allowed /\ trace[q].start > 0

(***************************************************************************)
(* Bust.                                                                   *)
(***************************************************************************)
WalletKey(q) == newArgsForLinkedWallets(args[q].principal)

\* the step in which q busts the entry of its principal
Busts(q) ==
    /\ pc[q] = "getLinkedWallets" /\ pc'[q] = "lookupLinkedWallets"
    /\ shouldBust(args[q])

MaxBytes == 2
MaxTopics == 2
MaxLogs == 2

\* uint64 arithmetic, scaled down: block numbers are 0..UintMod-1
UintMod == 4

Bytes == SeqsUpTo({0, 1}, MaxBytes)

\* the chains a receipt can name; NodeChain is the chain of ca.blockchain
Chains == {"node", "other"}

NodeChain == "node"

Log(address, topics, data) == [address |-> address, topics |-> topics, data |-> data]

BlockchainTransactionReceipt(chainId, blockNumber, logs, to, from) ==
    [chainId |-> chainId, blockNumber |-> blockNumber, logs |-> logs,
     to |-> to, from |-> from]

\* the outcome of VerifyReceipt: (true, nil), (false, RiverError(code, msg)),
\* (false, err) for an error passed through, or the panic of a nil dereference
Verified == [ok |-> TRUE, err |-> "none", msg |-> ""]

RiverError(code, msg) == [ok |-> FALSE, err |-> code, msg |-> msg]

PassedOn(err) == [ok |-> FALSE, err |-> err, msg |-> ""]

Panic == [ok |-> FALSE, err |-> "panic", msg |-> "nil pointer dereference"]

\* the inner loop: the first topic that differs, 0 if none
RECURSIVE topicMismatch(_, _, _)
topicMismatch(chainTopics, uploadedTopics, j) ==
    IF j > Len(chainTopics) THEN 0
    ELSE IF chainTopics[j] # uploadedTopics[j] THEN j
    ELSE topicMismatch(chainTopics, uploadedTopics, j + 1)

\* variant: the data of a log is not compared
logMismatch_dataUnchecked(chainLog, uploadedLog) ==
    IF chainLog.address # uploadedLog.address THEN "Log address mismatch:"
    ELSE IF Len(chainLog.topics) # Len(uploadedLog.topics) THEN "Log topics count mismatch"
    ELSE IF topicMismatch(chainLog.topics, uploadedLog.topics, 1) # 0 THEN "Log topic mismatch"
    ELSE ""

\* the body of the outer loop for one log: the message of its mismatch, "" if none
logMismatch(chainLog, uploadedLog) ==
    IF chainLog.address # uploadedLog.address THEN "Log address mismatch:"
    ELSE IF Len(chainLog.topics) # Len(uploadedLog.topics) THEN "Log topics count mismatch"
    ELSE IF topicMismatch(chainLog.topics, uploadedLog.topics, 1) # 0 THEN "Log topic mismatch"
    ELSE IF chainLog.data # uploadedLog.data THEN "Log data mismatch"
    ELSE ""

\* the outer loop: the message of the first log that differs, "" if none
RECURSIVE logsMismatch(_, _, _)
logsMismatch(chainLogs, uploadedLogs, i) ==
    IF i > Len(chainLogs) THEN ""
    ELSE IF logMismatch(chainLogs[i], uploadedLogs[i]) # ""
    THEN logMismatch(chainLogs[i], uploadedLogs[i])
    ELSE logsMismatch(chainLogs, uploadedLogs, i + 1)

\* variant: every failure to fetch the receipt is a network error
transactionReceiptError_allDownstream(err) == RiverError("DOWNSTREAM_NETWORK_ERROR", "")

\* what a failed client.TransactionReceipt is turned into
transactionReceiptError(err) ==
    IF err = "notfound"
    THEN RiverError("PERMISSION_DENIED", "Transaction receipt not found")
    ELSE RiverError("DOWNSTREAM_NETWORK_ERROR", "")

\* ca.blockchain.Client.BlockNumber: the height of the node's chain
latestBlockNumberOf(userReceipt, chain) == chain.latestBlockNumber[NodeChain]

\* latestBlockNumber - chainReceipt.BlockNumber.Uint64(), unsigned
confirmationsOf(latestBlockNumber, blockNumber) ==
    (latestBlockNumber + UintMod - blockNumber) % UintMod

VerifyReceipt(userReceipt, chain) ==
    LET chainReceipt == chain.receipt
        confirmations == confirmationsOf(latestBlockNumberOf(userReceipt, chain),
                                         chainReceipt.blockNumber)
    IN IF chain.getClient # "ok" THEN PassedOn(chain.getClient)
       ELSE IF chain.transactionReceipt # "ok"
       THEN transactionReceiptError(chain.transactionReceipt)
       ELSE IF chainReceipt.blockNumber # userReceipt.blockNumber
       THEN RiverError("PERMISSION_DENIED", "Block number mismatch")
       ELSE IF Len(chainReceipt.logs) # Len(userReceipt.logs)
       THEN RiverError("PERMISSION_DENIED", "Log count mismatch: chain:")
       ELSE IF logsMismatch(chainReceipt.logs, userReceipt.logs, 1) # ""
       THEN RiverError("PERMISSION_DENIED",
                       logsMismatch(chainReceipt.logs, userReceipt.logs, 1))
       ELSE IF chain.transactionByHash # "ok" THEN PassedOn(chain.transactionByHash)
       ELSE IF chain.isPending
       THEN RiverError("PERMISSION_DENIED", "Transaction is pending")
       ELSE IF chain.toIsNil THEN Panic
       ELSE IF chain.to # userReceipt.to
       THEN RiverError("PERMISSION_DENIED", "To address mismatch")
       ELSE IF chain.signerSender # "ok" THEN PassedOn(chain.signerSender)
       ELSE IF chain.sender # userReceipt.from
       THEN RiverError("PERMISSION_DENIED", "From address mismatch")
       ELSE IF chain.blockNumber # "ok"
       THEN RiverError("PERMISSION_DENIED", "Failed to get latest block number: %v")
       ELSE IF confirmations < 1
       THEN RiverError("PERMISSION_DENIED", "Transaction has 0 confirmations.")
       ELSE Verified

\* one call of VerifyReceipt
CallVerifyReceipt(userReceipt, chain) ==
    /\ ca.constructed
    /\ receipt = NoReceipt
    /\ receipt' = [state |-> "verified", user |-> userReceipt, chain |-> chain,
                   ret |-> VerifyReceipt(userReceipt, chain)]
    /\ UNCHANGED <<ca, now, reqVars, fanVars, cacheVars, trace>>

(***************************************************************************)
(* Receipts submitted, and what the chain answers.                         *)
(***************************************************************************)
\* addresses and topics have one width on the chain
Words == {<<0>>, <<1>>}

UserLogs == {Log(a, t, d) : a \in Words, t \in SeqsUpTo(Words, MaxTopics), d \in Words}

UserReceipts ==
    {BlockchainTransactionReceipt(c, n, l, to, from) :
        c \in Chains, n \in 1..2, l \in SeqsUpTo(UserLogs, MaxLogs),
        to \in Words, from \in Words}

ChainLogs == {Log(<<0>>, <<<<0>>, <<1>>>>, <<1>>), Log(<<1>>, <<>>, <<0>>)}

\* every call answers: the receipt in block 1, the transaction to <<0>> sent
\* by <<1>>, and the height of each chain
Answers(logs, latestBlockNumber) ==
    [getClient |-> "ok", transactionReceipt |-> "ok",
     receipt |-> [blockNumber |-> 1, logs |-> logs],
     transactionByHash |-> "ok", isPending |-> FALSE, toIsNil |-> FALSE, to |-> <<0>>,
     signerSender |-> "ok", sender |-> <<1>>,
     blockNumber |-> "ok", latestBlockNumber |-> latestBlockNumber]

\* one of the calls fails, the transaction is pending, or it creates a
\* contract (tx.To() is nil then)
Failing ==
    LET a == Answers(<<Log(<<1>>, <<>>, <<0>>)>>, [c \in Chains |-> 2])
    IN {[a EXCEPT !.getClient = "err"], [a EXCEPT !.transactionReceipt = "notfound"],
        [a EXCEPT !.transactionReceipt = "err"], [a EXCEPT !.transactionByHash = "err"],
        [a EXCEPT !.isPending = TRUE], [a EXCEPT !.toIsNil = TRUE],
        [a EXCEPT !.signerSender = "err"], [a EXCEPT !.blockNumber = "err"]}

ChainAnswers ==
    {Answers(l, n) : l \in SeqsUpTo(ChainLogs, MaxLogs), n \in [Chains -> 0..2]}
    \cup Failing

NextReceipt ==
    /\ receipt = NoReceipt
    /\ \E u \in UserReceipts, c \in ChainAnswers : CallVerifyReceipt(u, c)

SpecReceipt == InitCache /\ [][NextReceipt]_vars

(***************************************************************************)
(* The receipt a user submits against the receipt of the chain.            *)
(***************************************************************************)
RemoveAt(s, i) == SubSeq(s, 1, i - 1) \o SubSeq(s, i + 1, Len(s))

\* the logs that differ from l in one field: the address, the number of
\* topics, one topic, or the data
LogChanges(l) ==
    {[l EXCEPT !.address = b] : b \in Bytes \ {l.address}}
    \cup {[l EXCEPT !.data = b] : b \in Bytes \ {l.data}}
    \cup {[l EXCEPT !.topics = Append(@, w)] : w \in Words}
    \cup {[l EXCEPT !.topics = RemoveAt(@, j)] : j \in DOMAIN l.topics}
    \cup UNION {{[l EXCEPT !.topics[j] = b] : b \in Bytes \ {l.topics[j]}}
                : j \in DOMAIN l.topics}

\* the receipts that differ from u in one of the compared fields
SingleFieldChanges(u) ==
    {[u EXCEPT !.blockNumber = n] : n \in (0..(UintMod - 1)) \ {u.blockNumber}}
    \cup {[u EXCEPT !.to = b] : b \in Bytes \ {u.to}}
    \cup {[u EXCEPT !.from = b] : b \in Bytes \ {u.from}}
    \cup {[u EXCEPT !.logs = Append(@, l)] : l \in UserLogs}
    \cup {[u EXCEPT !.logs = RemoveAt(@, i)] : i \in DOMAIN u.logs}
    \cup UNION {{[u EXCEPT !.logs[i] = l] : l \in LogChanges(u.logs[i])}
                : i \in DOMAIN u.logs}

\* field by field, the user receipt is the chain's
ReceiptsAgree(u, c) ==
    /\ u.blockNumber = c.receipt.blockNumber
    /\ Len(u.logs) = Len(c.receipt.logs)
    /\ \A i \in DOMAIN u.logs \cap DOMAIN c.receipt.logs :
          LET mine == u.logs[i]
              theirs == c.receipt.logs[i]
          IN /\ mine.address = theirs.address
             /\ Len(mine.topics) = Len(theirs.topics)
             /\ \A j \in DOMAIN mine.topics \cap DOMAIN theirs.topics :
                   mine.topics[j] = theirs.topics[j]
             /\ mine.data = theirs.data
    /\ ~c.toIsNil /\ u.to = c.to
    /\ u.from = c.sender

ReceiptVerified == receipt.state = "verified" /\ receipt.ret.ok

\* C20: when VerifyReceipt returns true the user receipt agrees with the
\* chain's in the block number, the number of logs, every log's address,
\* number of topics, topics and data, and its to and from are the
\* transaction's to and recovered sender; and the same call with any one of
\* these fields of the user receipt changed returns false with
\* PERMISSION_DENIED.
C20_ReceiptByteExact ==
    ReceiptVerified =>
       /\ ReceiptsAgree(receipt.user, receipt.chain)
       /\ \A u \in SingleFieldChanges(receipt.user) :
             LET changed == VerifyReceipt(u, receipt.chain)
             IN ~changed.ok /\ changed.err = "PERMISSION_DENIED"

\* a receipt of two logs, the first with two topics, was verified
C20_Witness ==
    /\ ReceiptVerified
    /\ Len(receipt.user.logs) = MaxLogs
    /\ Len(receipt.user.logs[1].topics) = MaxTopics

(***************************************************************************)
(* Confirmations, and the calls VerifyReceipt makes.                       *)
(***************************************************************************)
\* every client call answered, and the transaction is mined and has a To
AllAnswered(c) ==
    /\ c.getClient = "ok" /\ c.transactionReceipt = "ok"
    /\ c.transactionByHash = "ok" /\ c.signerSender = "ok" /\ c.blockNumber = "ok"
    /\ ~c.isPending /\ ~c.toIsNil

\* a call whose outcome the confirmations alone decide
ConfirmationsDecide ==
    /\ receipt.state = "verified"
    /\ AllAnswered(receipt.chain)
    /\ ReceiptsAgree(receipt.user, receipt.chain)

PermissionDenied(out) == ~out.ok /\ out.err = "PERMISSION_DENIED"

\* C21, as stated: for a receipt that agrees in every compared field,
\* VerifyReceipt returns true exactly when the latest block number it read is
\* at least the receipt's block number plus one, and PERMISSION_DENIED
\* otherwise, also when the latest block number is below the receipt's.
C21_ConfirmedExactlyWhenLatestIsPast ==
    ConfirmationsDecide =>
       LET latest == latestBlockNumberOf(receipt.user, receipt.chain)
           blockNumber == receipt.chain.receipt.blockNumber
       IN IF latest >= blockNumber + 1 THEN receipt.ret.ok
          ELSE PermissionDenied(receipt.ret)

\* C22: a receipt the chain does not have is PERMISSION_DENIED, any other
\* failure to fetch it is DOWNSTREAM_NETWORK_ERROR, a pending transaction is
\* PERMISSION_DENIED, and true is returned only when every call answered.
C22_FailedCallsNeverVerify ==
    receipt.state = "verified" =>
       LET c == receipt.chain
           out == receipt.ret
       IN /\ (c.getClient = "ok" /\ c.transactionReceipt = "notfound") =>
                PermissionDenied(out)
          /\ (c.getClient = "ok" /\ c.transactionReceipt \notin {"ok", "notfound"}) =>
                ~out.ok /\ out.err = "DOWNSTREAM_NETWORK_ERROR"
          /\ (c.getClient = "ok" /\ c.transactionReceipt = "ok"
                /\ c.transactionByHash = "ok" /\ c.isPending) =>
                PermissionDenied(out)
          /\ out.ok =>
                /\ c.getClient = "ok" /\ c.transactionReceipt = "ok"
                /\ c.transactionByHash = "ok" /\ c.signerSender = "ok"
                /\ c.blockNumber = "ok" /\ ~c.isPending

\* the chain does not have the receipt
C22_Witness ==
    /\ receipt.state = "verified"
    /\ receipt.chain.getClient = "ok" /\ receipt.chain.transactionReceipt = "notfound"
    /\ receipt.ret.msg = "Transaction receipt not found"

\* a receipt that agrees in every field was refused because its transaction is pending
PendingRefused ==
    /\ receipt.state = "verified"
    /\ ReceiptsAgree(receipt.user, receipt.chain)
    /\ receipt.ret.msg = "Transaction is pending"

\* C29, as stated: the confirmations are counted on the receipt's chain:
\* a receipt that agrees in every field is verified exactly when the chain
\* named by its chainId is at least one block past the receipt's block.
C29_ConfirmationsOnTheReceiptsChain ==
    ConfirmationsDecide =>
       LET latest == receipt.chain.latestBlockNumber[receipt.user.chainId]
           blockNumber == receipt.chain.receipt.blockNumber
       IN receipt.ret.ok <=> confirmationsOf(latest, blockNumber) >= 1

(***************************************************************************)
(* The reason that goes with the owner's grant.                            *)
(***************************************************************************)
\* the request was decided by the owner being among its linked wallets
OwnerShortCircuit(r) ==
    /\ Decided(r) /\ args[r].kind \in {"Space", "Channel"}
    /\ "evaluateWithEntitlements" \in trace[r].called
    /\ OwnerAmongWallets(r)

\* C23, as stated: the owner's grant carries the reason NONE.
C23_OwnerGrantReasonNone ==
    \A r \in Reqs : OwnerShortCircuit(r) => ret[r].allowed /\ ret[r].reason = "NONE"

\* C23, amended: the owner's grant carries the reason of the entitlement
\* evaluation, SPACE_ENTITLEMENTS for a Space request and
\* CHANNEL_ENTITLEMENTS for a Channel request.
C23_OwnerGrantReasonEntitlements ==
    \A r \in Reqs :
       OwnerShortCircuit(r) =>
          /\ ret[r].allowed
          /\ args[r].kind = "Space" => ret[r].reason = "SPACE_ENTITLEMENTS"
          /\ args[r].kind = "Channel" => ret[r].reason = "CHANNEL_ENTITLEMENTS"

\* the owner of the space was granted a Channel request
C23_Witness ==
    \E r \in Reqs : OwnerShortCircuit(r) /\ args[r].kind = "Channel" /\ ret[r].allowed

(***************************************************************************)
(* The wallet-link contract that could not be set up.                      *)
(***************************************************************************)
\* the request has its linked wallets
WalletsAtHand(r) == frame[r].wallets # <<>>

\* C24, as stated: when the wallet-link contract could not be set up the
\* chainAuth is constructed all the same, and its requests resolve to the
\* principal alone with the linked-wallet cache left untouched; and whatever
\* the contract, the resolved wallets contain the principal.
C24_DegradesToPrincipal ==
    /\ ca.walletLinkContract = "nil" => ca.constructed
    /\ \A r \in Reqs :
          (ca.walletLinkContract = "nil" /\ WalletsAtHand(r)) =>
             /\ frame[r].wallets = <<args[r].principal>>
             /\ linkedWalletCache = newEntitlementCache
    /\ \A r \in Reqs :
          WalletsAtHand(r) => args[r].principal \in Range(frame[r].wallets)

(***************************************************************************)
(* The records in list order.                                              *)
(***************************************************************************)
\* what the record at k comes to for the wallets of the request
RecordAt(r, k) == evaluateRecord(frame[r].entitlementData[k], frame[r].wallets)

\* the records up to k that neither hold nor fail
QuietBefore(r, k) == \A j \in 1..(k - 1) : RecordAt(r, j) = "false"

\* the outcome of evaluateEntitlementData for the request
RecordsOutcome(r) == evaluateEntitlementData(frame[r].entitlementData, frame[r].args)

\* C25: for a request whose records were evaluated: it is granted iff some
\* record holds and no rule before it failed; it fails iff some rule fails
\* and no record before it holds, also when a later record would hold; the
\* evaluation stops at that first record that holds or fails; an unknown
\* record counts as one that does not hold; and with no record that holds
\* or fails the request is denied.
C25_FirstTrueRecordWins ==
    \A r \in Reqs :
       RecordsEvaluated(r) =>
          LET n == Len(frame[r].entitlementData)
              out == RecordsOutcome(r)
          IN /\ (ret[r].err = "none" /\ ret[r].allowed) <=>
                   \E k \in 1..n : RecordAt(r, k) = "true" /\ QuietBefore(r, k)
             /\ ret[r].err # "none" <=>
                   \E k \in 1..n : RecordAt(r, k) = "error" /\ QuietBefore(r, k)
             /\ \A k \in 1..n :
                   (RecordAt(r, k) # "false" /\ QuietBefore(r, k)) => out.evaluated = k
             /\ (\A k \in 1..n : RecordAt(r, k) = "false") =>
                   /\ out.evaluated = n
                   /\ ret[r].err = "none" /\ ~ret[r].allowed
             /\ \A k \in 1..n :
                   frame[r].entitlementData[k].type = "Unknown" => RecordAt(r, k) = "false"

\* a rule failed, a later record holds, and the call failed
C25_Witness ==
    \E r \in Reqs :
       /\ RecordsEvaluated(r)
       /\ Len(frame[r].entitlementData) = 2
       /\ RecordAt(r, 1) = "error" /\ RecordAt(r, 2) = "true"
       /\ ret[r].err # "none"

\* an unknown record was passed over and the record after it granted
UnknownThenGrant ==
    \E r \in Reqs :
       /\ RecordsEvaluated(r)
       /\ Len(frame[r].entitlementData) = 2
       /\ frame[r].entitlementData[1].type = "Unknown" /\ RecordAt(r, 2) = "true"
       /\ ret[r].allowed

(***************************************************************************)
(* Failed computations and the caches.                                     *)
(***************************************************************************)
\* the resolver call of r failed
ResolverFailed(r) == trace[r].lwFrom = r /\ frame[r].lwErr # "none"

\* checkEntitlement of r failed
ComputationFailed(r) == Done(r) /\ Computed(r) /\ ret[r].err \notin {"none", "unset"}

\* q is past the lookup of the outer cache
LookedUp(q) == pc[q] # "idle"

WaiterFailed == \E q \in Reqs : JoinedOuter(q) /\ ret[q].err = "err"

\* the resolver is called again after it failed for the principal
ResolverCalledAgain ==
    \E r, q \in Reqs :
        /\ r # q /\ ResolverFailed(r) /\ pc[r] = "done"
        /\ WalletKey(q) = WalletKey(r) /\ pc[q] = "getLinkedWalletsUncached"

\* a waiter of the resolver ended with the resolver's error
WalletWaiterFailed ==
    \E q \in Reqs : JoinedWallets(q) /\ frame[q].lwErr = "err" /\ trace[q].lwFrom # q

(***************************************************************************)
(* The channels of the fan-out.                                            *)
(***************************************************************************)
RunningProbes(r) == {i \in DOMAIN probes[r] : probes[r][i].state = "running"}

\* the probes that finish in the step
Finishing(r) ==
    {i \in DOMAIN probes[r] \cap DOMAIN probes'[r] :
        probes[r][i].state = "running" /\ probes'[r][i].state # "running"}

\* a running probe finds room in both channels, and finds them open
SendsGoThrough(r) ==
    RunningProbes(r) # {} =>
        /\ canSend(isMemberResults[r], channelCapacity(frame[r].wallets))
        /\ canSend(isMemberError[r], channelCapacity(frame[r].wallets))
        /\ isMemberClosed[r] = "open"

\* a probe that finishes sends one message, its result on isMemberResults
\* or its error on isMemberError; nothing else sends; a finished probe
\* stays as it is; the channels are closed when no probe runs, and stay so
OneMessagePerProbe(r) ==
    /\ Cardinality(Finishing(r)) <= 1
    /\ Finishing(r) = {} =>
          /\ Len(isMemberResults'[r]) <= Len(isMemberResults[r])
          /\ Len(isMemberError'[r]) <= Len(isMemberError[r])
    /\ \A i \in Finishing(r) :
          /\ isMemberClosed[r] = "open" /\ isMemberClosed'[r] = "open"
          /\ IF probes'[r][i].state = "result"
             THEN /\ isMemberResults'[r] = Append(isMemberResults[r], probes'[r][i].status)
                  /\ isMemberError'[r] = isMemberError[r]
             ELSE /\ isMemberError'[r] = Append(isMemberError[r], probes'[r][i].state)
                  /\ isMemberResults'[r] = isMemberResults[r]
    /\ \A i \in DOMAIN probes[r] :
          probes[r][i].state # "running" => probes'[r][i] = probes[r][i]
    /\ isMemberClosed[r] = "closed" => isMemberClosed'[r] = "closed"
    /\ (isMemberClosed[r] = "open" /\ isMemberClosed'[r] = "closed") =>
          RunningProbes(r) = {}

\* C27: each probe sends exactly one message on exactly one channel; a
\* running probe always finds room in the channels and finds them open,
\* also after the collector left its loop; the channels are closed once,
\* when no probe runs; and, every probe call returning, the collector does
\* not wait on the channels for ever.
C27_FanOutNeverBlocks ==
    /\ [](\A r \in Reqs : SendsGoThrough(r))
    /\ [][\A r \in Reqs : OneMessagePerProbe(r)]_vars
    /\ \A r \in Reqs : (pc[r] = "collect") ~> (pc[r] # "collect")

\* the collector left its loop at an unexpired membership, the other probe
\* sent its result afterwards, and the channels are closed
C27_Witness ==
    \E r \in Reqs :
        /\ frame[r].isMember /\ ~frame[r].isExpired /\ pc[r] # "collect"
        /\ Len(probes[r]) = MaxWallets /\ isMemberClosed[r] = "closed"
        /\ isMemberResults[r] # <<>>

(***************************************************************************)
(* Membership denials.                                                     *)
(***************************************************************************)
\* checkEntitlement of r returned the denial with the reason
Denied(r, reason) ==
    Done(r) /\ Computed(r) /\ ret[r] = Decision(boolCacheResult(FALSE, reason))

\* every probe of r has finished and the channels are closed
FanOutOver(r) == RunningProbes(r) = {} /\ isMemberClosed[r] = "closed"

\* C28: (false, MEMBERSHIP) is returned only when every probe has
\* finished, none sent an error and every result said "not a member";
\* (false, MEMBERSHIP_EXPIRED) only when every probe has finished and none
\* returned an unexpired membership; a probe that ended on a done context
\* rules (false, MEMBERSHIP) out.
C28_MembershipDenialConclusive ==
    \A r \in Reqs :
        /\ Denied(r, "MEMBERSHIP") =>
              /\ FanOutOver(r)
              /\ \A i \in DOMAIN probes[r] :
                    probes[r][i].state = "result" /\ ~probes[r][i].status.IsMember
              /\ isMemberResults[r] = <<>> /\ isMemberError[r] = <<>>
        /\ Denied(r, "MEMBERSHIP_EXPIRED") =>
              /\ FanOutOver(r)
              /\ ~ProbeReturned(r, Fresh) /\ ProbeReturned(r, Expired)
              /\ isMemberResults[r] = <<>>
        /\ (Done(r) /\ ProbeFailed(r, "ctx")) => ret[r].reason # "MEMBERSHIP"

\* both probes said "not a member" and the request is denied with MEMBERSHIP
C28_Witness ==
    \E r \in Reqs :
        /\ Denied(r, "MEMBERSHIP") /\ Len(probes[r]) = MaxWallets
        /\ \A i \in DOMAIN probes[r] : probes[r][i] = Finished("result", NoStatus)

\* a probe ended on the done context, the other said "not a member", and
\* the call failed
InterruptedProbeFails ==
    \E r \in Reqs :
        /\ Done(r) /\ ProbeFailed(r, "ctx") /\ ProbeReturned(r, NoStatus)
        /\ ret[r] = Failure("CANNOT_CHECK_ENTITLEMENTS")

\* denied with MEMBERSHIP_EXPIRED although a probe failed
ExpiredDespiteError ==
    \E r \in Reqs : Denied(r, "MEMBERSHIP_EXPIRED") /\ ProbeFailed(r, "err")

(***************************************************************************)
(* Two principals.  Two requests for the same space and permission, or to  *)
(* the same IsWalletLinked principal, that differ in the principal or in   *)
(* the wallet asked for; the wallet lists of the two principals can be the *)
(* same list.                                                              *)
(***************************************************************************)
RequestsPrincipals ==
    {NewChainAuthArgsForSpace(SpaceS, p, "Write") : p \in WalletAddr}
    \cup {NewChainAuthArgsForIsWalletLinked(2, w) : w \in WalletAddr}

WalletsPrincipals == {<<2>>, <<2, 3>>}

NextPrincipals ==
    \/ Tick
    \/ \E r \in Reqs, a \in RequestsPrincipals : IsEntitled(r, a)
    \/ \E r \in Reqs : CheckStreamIsEnabled(r, "ok", FALSE)
    \/ \E r \in Reqs : GetLinkedWallets(r)
    \/ \E r \in Reqs : LookupLinkedWallets(r)
    \/ \E r \in Reqs, w \in WalletsPrincipals : GetLinkedWalletsUncached(r, "ok", w)
    \/ \E r \in Reqs : CheckWallets(r)
    \/ \E r \in Reqs, i \in 1..MaxWallets : CheckMembership(r, i, "ok", Fresh)
    \/ \E r \in Reqs : CloseChannels(r)
    \/ \E r \in Reqs : Collect(r)
    \/ \E r \in Reqs : AreLinkedWalletsEntitled(r)
    \/ \E r \in Reqs : GetEntitlementsForPermission(r, "ok", 3, <<>>)
    \/ \E r \in Reqs : IsBanned(r, "ok", FALSE)

SpecPrincipals == InitCache /\ [][NextPrincipals]_vars

\* the two requests agree on kind, space, channel and permission
SameScope(a, b) ==
    /\ a.kind = b.kind /\ a.spaceId = b.spaceId
    /\ a.channelId = b.channelId /\ a.permission = b.permission

\* they differ in the principal or in the wallet asked for
OtherPrincipal(a, b) == a.principal # b.principal \/ a.walletAddress # b.walletAddress

\* q got its decision from the inner lookup: it passed the membership stage
\* and neither fetched nor evaluated
InnerHit(q) ==
    /\ Done(q) /\ Computed(q) /\ args[q].kind \in {"Space", "Channel"}
    /\ frame[q].isMember /\ ~frame[q].isExpired
    /\ trace[q].called \cap {"entitlements", "evaluateWithEntitlements"} = {}

\* C30: of two requests that agree on kind, space, channel and permission
\* and differ in the principal (or the wallet asked for), neither is
\* answered from the outer entry of the other, neither waits for the
\* computation of the other, and one is answered from the inner entry of
\* the other only when both resolved to the same wallet list.
C30_IsolatedPerPrincipal ==
    \A r, q \in Reqs :
        (/\ r # q /\ LookedUp(r) /\ LookedUp(q)
         /\ SameScope(args[r], args[q]) /\ OtherPrincipal(args[r], args[q])) =>
            /\ ~trace[q].hit
            /\ pc[q] # "outerWait" /\ ~JoinedOuter(q)
            /\ InnerHit(q) => frame[q].args.linkedWallets = frame[r].args.linkedWallets

\* the decision of r was stored and still fresh when q, of the other
\* principal, entered; q computed, and was denied where r was allowed
C30_Witness ==
    \E r, q \in Reqs :
        /\ r # q /\ SameScope(args[r], args[q])
        /\ args[r].principal # args[q].principal
        /\ Done(r) /\ ret[r].allowed /\ Done(q) /\ Computed(q)
        /\ ret[q] = Decision(boolCacheResult(FALSE, "SPACE_ENTITLEMENTS"))
        /\ cacheHas(entitlementCache, args[r])
        /\ StoredDecision(r).at < trace[q].start

\* the same for two IsWalletLinked requests that differ in the wallet
OtherWalletComputed ==
    \E r, q \in Reqs :
        /\ r # q /\ args[r].kind = "IsWalletLinked" /\ args[q].kind = "IsWalletLinked"
        /\ args[r].walletAddress # args[q].walletAddress
        /\ Done(r) /\ ret[r].allowed /\ Done(q) /\ Computed(q) /\ ~ret[q].allowed
        /\ cacheHas(entitlementCache, args[r])
        /\ StoredDecision(r).at < trace[q].start

\* both principals resolved to the same wallet list
SameWalletList ==
    \E r, q \in Reqs :
        /\ r # q /\ args[r].principal # args[q].principal
        /\ Done(r) /\ Done(q) /\ frame[r].args.linkedWallets # <<>>
        /\ frame[r].args.linkedWallets = frame[q].args.linkedWallets

(***************************************************************************)
(* The nested lookups of entitlementCache.  checkEntitlement runs as the   *)
(* fn of the request's key; inside it the enable check and                 *)
(* isEntitledToSpace / isEntitledToChannel look other keys up in the same  *)
(* cache.  A lookup of a key whose fn is running waits for that fn.        *)
(***************************************************************************)
\* r is at, or past, the inner lookup of entitlementCache
AtInnerLookup(r) ==
    \/ pc[r] \in {"areLinkedWalletsEntitled", "innerWait", "getEntitlements", "isBanned"}
       /\ args[r].kind \in {"Space", "Channel"}
    \/ Done(r) /\ "evaluateWithEntitlements" \in trace[r].called

\* r waits in a nested lookup
WaitsNested(r) == pc[r] \in {"enableWait", "innerWait"}

EnabledKinds == {"SpaceEnabled", "ChannelEnabled"}

\* C31: a request never waits in a nested lookup of entitlementCache.  At
\* the inner lookup its key carries a non-empty wallet list and so differs
\* from the request's key, which is in flight; while the inner fn runs both
\* keys are in flight side by side; no key of an enable check is a
\* request's key or in flight when a request looks it up; the copy with
\* the wallets equals the request exactly when the list is empty; and with
\* no wallet, so no probe and no result, the membership stage denies.
C31_NestedLookupsNeverSelfWait ==
    /\ \A r \in Reqs :
          /\ ~WaitsNested(r)
          /\ AtInnerLookup(r) =>
                /\ frame[r].wallets # <<>>
                /\ frame[r].args.linkedWallets # <<>>
                /\ frame[r].args # args[r]
          /\ InCheckEntitlement(r) =>
                /\ args[r] \in entitlementCache.inflight
                /\ args[r].kind \notin EnabledKinds
          /\ pc[r] \in {"getEntitlements", "isBanned"} =>
                {args[r], frame[r].args} \subseteq entitlementCache.inflight
    /\ \A key \in entitlementCache.inflight : key.kind \notin EnabledKinds
    /\ \A a \in Requests, w \in SeqsUpTo(WalletAddr, MaxWallets) :
          (withLinkedWallets(a, w) = a) <=> (w = <<>>)
    /\ membershipOutcome(NoFrame.isMember, NoFrame.isExpired, <<>>).out
          = Decision(boolCacheResult(FALSE, "MEMBERSHIP"))

\* a channel request waits for IsBanned: the enable check and the inner
\* lookup are behind it, its key and its inner key are both in flight
C31_Witness ==
    \E r \in Reqs :
        /\ pc[r] = "isBanned" /\ args[r].kind = "Channel"
        /\ trace[r].enabled = "enabled"
        /\ Cardinality({args[r], frame[r].args} \cap entitlementCache.inflight) = 2

====
